---- MODULE Spec2Model ----
\* A model of the URDF -> USD converter: the line-tracking parser
\* (urdf_parser/parser.py, elements.py, reserved_element_attribute_names.py),
\* the kinematic hierarchy builder, and the link / joint conversion (link.py).
EXTENDS Integers, Sequences, FiniteSets, TLC

\* ---------------------------------------------------------------- bounds
\* Robot-level children read by one parse.
MaxChildren == 3

\* The most joints a converted document declares.
MaxJoints == 2

\* The depth at which the recursion of convert_link is cut off.
MaxDepth == 4

\* ---------------------------------------------------------------- registry
\* reserved_element_attribute_names.py: reserved_element_names.
reserved_element_names ==
    { "actuator", "axis", "box", "calibration", "camera", "child", "collision",
      "color", "cylinder", "dynamics", "flexJoint", "gap_joint", "gazebo",
      "geometry", "horizontal", "image", "inertia", "inertial", "joint",
      "leftActuator", "limit", "link", "mass", "material", "mechanicalReduction",
      "mesh", "mimic", "origin", "parent", "passive_joint", "ray",
      "rightActuator", "robot", "rollJoint", "safety_controller", "sensor",
      "sphere", "texture", "transmission", "use_simulated_gripper_joint",
      "verbose", "vertical", "visual" }

check_element_name(element_name) == element_name \in reserved_element_names

\* reserved_element_attribute_names.py: the attribute whitelist, keyed by the
\* "element" string of each table entry.
reserved_element_attribute_names ==
    [ actuator_transmission |-> {"mechanicalReduction", "name"},
      axis |-> {"xyz"},
      box |-> {"size"},
      calibration |-> {"reference_position", "rising", "falling"},
      child |-> {"link"},
      collision |-> {"name"},
      color |-> {"rgba"},
      cylinder |-> {"length", "radius"},
      dynamics |-> {"damping", "friction"},
      gap_joint_transmission |-> {"L0", "a", "b", "gear_ratio", "h",
          "mechanical_reduction", "name", "phi0", "r", "screw_reduction",
          "t0", "theta0"},
      image |-> {"width", "height", "format", "hfov", "near", "far"},
      inertia |-> {"ixx", "ixy", "ixz", "iyy", "iyz", "izz"},
      joint |-> {"name", "type"},
      LaserRay |-> {"samples", "resolution", "min_angle", "max_angle"},
      limit |-> {"lower", "upper", "effort", "velocity"},
      link |-> {"name"},
      mass |-> {"value"},
      material |-> {"name"},
      mesh |-> {"filename", "scale"},
      mimic |-> {"joint", "multiplier", "offset"},
      origin |-> {"xyz", "rpy"},
      parent |-> {"link"},
      passive_joint_transmission |-> {"name"},
      robot |-> {"name"},
      safety_controller |-> {"soft_lower_limit", "soft_upper_limit",
          "k_position", "k_velocity"},
      sensor |-> {"name", "update_rate", "version"},
      sphere |-> {"radius"},
      texture |-> {"filename"},
      transmission |-> {"name", "type"},
      verbose |-> {"value"} ]

check_element_attribute_name(element_name, attribute_name) ==
    /\ element_name \in DOMAIN reserved_element_attribute_names
    /\ attribute_name \in reserved_element_attribute_names[element_name]

\* elements.py: the subclasses of ElementBase in definition order, each with
\* its available_tag_names and allowed_parent_tags.
ElementClasses ==
  << [cls |-> "ElementUndefined", tags |-> {}, parents |-> {}],
     [cls |-> "ElementPose", tags |-> {"origin"},
      parents |-> {"inertial", "visual", "collision", "joint", "sensor"}],
     [cls |-> "ElementColor", tags |-> {"color"}, parents |-> {"material"}],
     [cls |-> "ElementVerbose", tags |-> {"verbose"}, parents |-> {"collision"}],
     [cls |-> "ElementName", tags |-> {"actuator", "joint"},
      parents |-> {"transmission"}],
     [cls |-> "ElementMass", tags |-> {"mass"}, parents |-> {"inertial"}],
     [cls |-> "ElementInertia", tags |-> {"inertia"}, parents |-> {"inertial"}],
     [cls |-> "ElementInertial", tags |-> {"inertial"}, parents |-> {"link"}],
     [cls |-> "ElementBox", tags |-> {"box"}, parents |-> {"geometry"}],
     [cls |-> "ElementCylinder", tags |-> {"cylinder"}, parents |-> {"geometry"}],
     [cls |-> "ElementSphere", tags |-> {"sphere"}, parents |-> {"geometry"}],
     [cls |-> "ElementMesh", tags |-> {"mesh"}, parents |-> {"geometry"}],
     [cls |-> "ElementGeometry", tags |-> {"geometry"},
      parents |-> {"visual", "collision"}],
     [cls |-> "ElementTexture", tags |-> {"texture"}, parents |-> {"material"}],
     [cls |-> "ElementMaterial", tags |-> {"material"}, parents |-> {"visual"}],
     [cls |-> "ElementMaterialGlobal", tags |-> {"material"},
      parents |-> {"robot"}],
     [cls |-> "ElementVisual", tags |-> {"visual"}, parents |-> {"link"}],
     [cls |-> "ElementCollision", tags |-> {"collision"}, parents |-> {"link"}],
     [cls |-> "ElementLink", tags |-> {"link"}, parents |-> {"robot"}],
     [cls |-> "ElementParent", tags |-> {"parent"}, parents |-> {"joint", "sensor"}],
     [cls |-> "ElementChild", tags |-> {"child"}, parents |-> {"joint"}],
     [cls |-> "ElementAxis", tags |-> {"axis"}, parents |-> {"joint"}],
     [cls |-> "ElementCalibration", tags |-> {"calibration"}, parents |-> {"joint"}],
     [cls |-> "ElementDynamics", tags |-> {"dynamics"}, parents |-> {"joint"}],
     [cls |-> "ElementLimit", tags |-> {"limit"}, parents |-> {"joint"}],
     [cls |-> "ElementSafetyController", tags |-> {"safety_controller"},
      parents |-> {"joint"}],
     [cls |-> "ElementMimic", tags |-> {"mimic"}, parents |-> {"joint"}],
     [cls |-> "ElementActuatorTransmission",
      tags |-> {"leftActuator", "rightActuator", "flexJoint", "rollJoint"},
      parents |-> {"transmission"}],
     [cls |-> "ElementGapJointTransmission", tags |-> {"gap_joint"},
      parents |-> {"transmission"}],
     [cls |-> "ElementPassiveJointTransmission", tags |-> {"passive_joint"},
      parents |-> {"transmission"}],
     [cls |-> "ElementTransmission", tags |-> {"transmission"},
      parents |-> {"robot"}],
     [cls |-> "ElementImage", tags |-> {"image"}, parents |-> {"robot"}],
     [cls |-> "ElementCamera", tags |-> {"camera"}, parents |-> {"sensor"}],
     [cls |-> "ElementLaserRay", tags |-> {"horizontal", "vertical"},
      parents |-> {"ray"}],
     [cls |-> "ElementRay", tags |-> {"ray"}, parents |-> {"sensor"}],
     [cls |-> "ElementSensor", tags |-> {"sensor"}, parents |-> {"robot"}],
     [cls |-> "ElementJoint", tags |-> {"joint"}, parents |-> {"robot"}],
     [cls |-> "ElementRobot", tags |-> {"robot"}, parents |-> {}] >>

\* The tag of "no previous element" (prev_element is None at the root).
NoTag == "<none>"
NoClass == "<none>"

\* The least index of a non-empty set of indices (the first hit of a for loop).
First(S) == CHOOSE i \in S : \A j \in S : i <= j

\* _get_element_class 611-615: the class accepts the tag under this parent.
ClassAccepts(class, tag_name, prev_element_tag) ==
    tag_name \in class.tags /\ prev_element_tag \in class.parents

MatchingClasses(tag_name, prev_element_tag) ==
    { i \in 1..Len(ElementClasses) :
        ClassAccepts(ElementClasses[i], tag_name, prev_element_tag) }

\* The first of the matching classes, in definition order; NoClass if none.
FirstClass(matching) ==
    IF matching = {} THEN NoClass ELSE ElementClasses[First(matching)].cls

\* URDFParser._get_element_class: the first class, in definition order, whose
\* tag list holds the tag and whose parent list holds the previous tag.
\* A reserved tag with no such class yields NoClass.
GetElementClass(tag_name, prev_element_tag) ==
    IF tag_name = "robot" /\ prev_element_tag = NoTag THEN "ElementRobot"
    ELSE FirstClass(MatchingClasses(tag_name, prev_element_tag))


\* ---------------------------------------------------------------- values
\* The empty mapping (a fresh dict).
EmptyMap == [x \in {} |-> x]

\* str.split(" ") on the attribute strings the model draws; any other string
\* holds no space and splits into itself.
Split(value) ==
    CASE value = "0 0 1" -> <<"0", "0", "1">>
      [] value = "1 2 3" -> <<"1", "2", "3">>
      [] value = "1 2"   -> <<"1", "2">>
      [] value = "a b c" -> <<"a", "b", "c">>
      [] value = "1 0 0 1" -> <<"1", "0", "0", "1">>
      [] OTHER -> <<value>>

\* float(token) succeeds on these tokens and raises on every other one.
IsFloat(token) == token \in {"0", "1", "2", "3", "0.5", "1.5"}
\* int(token)
IsInt(token) == token \in {"0", "1", "2", "3"}

\* parser.py _convert_float3 / _convert_float4: the value must split into
\* exactly n tokens, each of them a float.
ConvertsToFloatN(value, n) ==
    LET values == Split(value)
    IN  /\ Len(values) = n
        /\ \A i \in 1..n : IsFloat(values[i])

_convert_float3_ok(value) == ConvertsToFloatN(value, 3)
_convert_float4_ok(value) == ConvertsToFloatN(value, 4)

\* Whether a conversion of kind conv accepts the value.
Converts(conv, value) ==
    CASE conv = "float3" -> _convert_float3_ok(value)
      [] conv = "float4" -> _convert_float4_ok(value)
      [] conv = "float"  -> IsFloat(value)
      [] conv = "int"    -> IsInt(value)
      [] OTHER -> TRUE

\* The value a conversion stores: the token list of a vector, else the string.
Converted(conv, value) ==
    IF conv \in {"float3", "float4"} THEN Split(value) ELSE value

\* ---------------------------------------------------------------- errors
NoErr == [kind |-> "none", tag |-> NoTag, line |-> 0, detail |-> ""]

\* URDFParser._get_error_message: "<tag>: <message> (line: <line>)".
ErrorAt(kind, node, detail) ==
    [kind |-> kind, tag |-> node.tag, line |-> node.line, detail |-> detail]

\* An exception raised without _get_error_message (a bare float() failure,
\* an attribute access on None): it carries neither tag nor line.
BareError(kind, detail) ==
    [kind |-> kind, tag |-> NoTag, line |-> 0, detail |-> detail]

\* ---------------------------------------------------------------- elements
\* ElementBase.__init__ and the subclasses' fields: typed attributes live in
\* fields, child elements in slots, the robot's collections in the four lists.
NewElement(cls, tag, path, line) ==
    [cls |-> cls, tag |-> tag, path |-> path, line_number |-> line,
     fields |-> EmptyMap, slots |-> EmptyMap,
     undefined_attributes |-> EmptyMap, undefined_elements |-> <<>>,
     links |-> <<>>, materials |-> <<>>, joints |-> <<>>, transmissions |-> <<>>]

\* prev_element = None
NullElement == NewElement(NoClass, NoTag, <<>>, 0)

HasField(e, f) == f \in DOMAIN e.fields
HasSlot(e, s) == s \in DOMAIN e.slots
SetField(e, f, v) == [e EXCEPT !.fields = (f :> v) @@ e.fields]
SetSlot(e, s, child) == [e EXCEPT !.slots = (s :> child) @@ e.slots]

\* elements.py ElementGeometry.available_geometry_types / ElementJoint.available_joint_types
available_geometry_types == {"box", "sphere", "cylinder", "mesh"}
available_joint_types ==
    {"fixed", "revolute", "continuous", "prismatic", "floating", "planar"}

\* parser.py 216-227: the classes whose name attribute is required.
NameRequiredClasses ==
    {"ElementRobot", "ElementMaterialGlobal", "ElementLink", "ElementJoint",
     "ElementSensor", "ElementTransmission"}

\* One attribute read of _parse_xml_elements: the attribute, its conversion,
\* whether its absence is an error, and whether a failed conversion is
\* re-raised through _get_error_message (try/except) or escapes bare.
Step(attr, conv, required, wrapped) ==
    [attr |-> attr, conv |-> conv, required |-> required, wrapped |-> wrapped]

\* parser.py 237-265: read for every element, whatever its class.
GenericSteps ==
    << Step("size", "float3", FALSE, TRUE),
       Step("xyz", "float3", FALSE, TRUE),
       Step("rpy", "float3", FALSE, TRUE),
       Step("radius", "float", FALSE, TRUE),
       Step("length", "float", FALSE, TRUE),
       Step("version", "str", FALSE, TRUE) >>

\* parser.py 267-414: the reads of the class-specific elif chain, in order.
ClassSteps(cls) ==
    CASE cls = "ElementColor" -> << Step("rgba", "float4", FALSE, TRUE) >>
      [] cls = "ElementTexture" -> << Step("filename", "str", FALSE, TRUE) >>
      [] cls = "ElementMass" -> << Step("mass", "float", FALSE, FALSE) >>
      [] cls = "ElementMesh" ->
            << Step("scale", "float3", FALSE, TRUE),
               Step("filename", "str", TRUE, TRUE) >>
      [] cls = "ElementSafetyController" ->
            << Step("soft_lower_limit", "float", FALSE, FALSE),
               Step("soft_upper_limit", "float", FALSE, FALSE),
               Step("k_position", "float", FALSE, FALSE),
               Step("k_velocity", "float", TRUE, FALSE) >>
      [] cls = "ElementInertia" ->
            << Step("ixx", "float", FALSE, FALSE), Step("iyy", "float", FALSE, FALSE),
               Step("izz", "float", FALSE, FALSE), Step("ixy", "float", FALSE, FALSE),
               Step("ixz", "float", FALSE, FALSE), Step("iyz", "float", FALSE, FALSE) >>
      [] cls = "ElementMimic" ->
            << Step("joint", "str", TRUE, TRUE),
               Step("multiplier", "float", FALSE, FALSE),
               Step("offset", "float", FALSE, FALSE) >>
      [] cls = "ElementLimit" ->
            << Step("lower", "float", FALSE, FALSE), Step("upper", "float", FALSE, FALSE),
               Step("effort", "float", FALSE, FALSE),
               Step("velocity", "float", FALSE, FALSE) >>
      [] cls = "ElementCalibration" ->
            << Step("reference_position", "float", FALSE, FALSE),
               Step("rising", "float", FALSE, FALSE),
               Step("falling", "float", FALSE, FALSE) >>
      [] cls = "ElementDynamics" ->
            << Step("damping", "float", FALSE, FALSE),
               Step("friction", "float", FALSE, FALSE) >>
      [] cls \in {"ElementParent", "ElementChild"} ->
            << Step("link", "str", TRUE, TRUE) >>
      [] cls = "ElementAxis" -> << Step("xyz", "float3", FALSE, TRUE) >>
      [] cls = "ElementVerbose" -> << Step("value", "str", FALSE, TRUE) >>
      [] cls = "ElementImage" ->
            << Step("width", "int", FALSE, FALSE), Step("height", "int", FALSE, FALSE),
               Step("format", "str", FALSE, FALSE), Step("hfov", "float", FALSE, FALSE),
               Step("near", "float", FALSE, FALSE), Step("far", "float", FALSE, FALSE) >>
      [] cls = "ElementLaserRay" ->
            << Step("samples", "int", FALSE, FALSE),
               Step("resolution", "int", FALSE, FALSE),
               Step("min_angle", "float", FALSE, FALSE),
               Step("max_angle", "float", FALSE, FALSE) >>
      [] cls = "ElementSensor" ->
            << Step("update_rate", "float", FALSE, FALSE),
               Step("version", "str", FALSE, FALSE) >>
      [] OTHER -> << >>

\* ReadStep with the slip of treating every attribute as optional.
ReadStepUnrequired(s, node, e) ==
    IF s.attr \in DOMAIN node.attrib
    THEN IF Converts(s.conv, node.attrib[s.attr])
         THEN [err |-> NoErr,
               el |-> SetField(e, s.attr, Converted(s.conv, node.attrib[s.attr]))]
         ELSE [err |-> IF s.wrapped
                       THEN ErrorAt("Invalid value", node, s.attr)
                       ELSE BareError("ValueError", s.attr),
               el |-> e]
    ELSE [err |-> NoErr, el |-> e]

\* One read on element e: the attribute is absent (an error if required),
\* or converts and is stored in its typed field, or fails to convert.
ReadStep(s, node, e) ==
    IF s.attr \in DOMAIN node.attrib
    THEN IF Converts(s.conv, node.attrib[s.attr])
         THEN [err |-> NoErr,
               el |-> SetField(e, s.attr, Converted(s.conv, node.attrib[s.attr]))]
         ELSE [err |-> IF s.wrapped
                       THEN ErrorAt("Invalid value", node, s.attr)
                       ELSE BareError("ValueError", s.attr),
               el |-> e]
    ELSE IF s.required
         THEN [err |-> ErrorAt("is required", node, s.attr), el |-> e]
         ELSE [err |-> NoErr, el |-> e]

\* Runs the reads steps[i..] after the read that gave r: the first failing
\* read ends the parse with its error.
RECURSIVE ReadSteps(_, _, _, _)
ReadSteps(steps, i, node, r) ==
    IF r.err # NoErr \/ i > Len(steps) THEN r
    ELSE ReadSteps(steps, i + 1, node, ReadStep(steps[i], node, r.el))


\* ---------------------------------------------------------------- parser
\* ResolveClass with the slip of capturing a reserved tag that no class
\* accepts under this parent as undefined content instead of rejecting it.
ResolveClassLenient(node, prev) ==
    IF prev.cls = "ElementUndefined" \/ ~check_element_name(node.tag)
    THEN "ElementUndefined"
    ELSE IF GetElementClass(node.tag, prev.tag) = NoClass THEN "ElementUndefined"
    ELSE GetElementClass(node.tag, prev.tag)

\* parser.py 195-200: an element is undefined when its parent is, or when its
\* tag is not reserved; otherwise the registry resolves it.
ResolveClass(node, prev) ==
    IF prev.cls = "ElementUndefined" \/ ~check_element_name(node.tag)
    THEN "ElementUndefined"
    ELSE GetElementClass(node.tag, prev.tag)

\* parser.py 212-213: node.attrib.get("name") is truthy.
HasName(node) == "name" \in DOMAIN node.attrib /\ node.attrib["name"] # ""

\* parser.py 229-235: the joint's type attribute.
JointTypeError(node) ==
    IF "type" \in DOMAIN node.attrib /\ node.attrib["type"] # ""
    THEN IF node.attrib["type"] \in available_joint_types THEN NoErr
         ELSE ErrorAt("Invalid joint type", node, node.attrib["type"])
    ELSE ErrorAt("is required", node, "type")

\* parser.py 267-269: an undefined element keeps every attribute verbatim.
KeepAllAttributes(e, node) ==
    IF e.cls = "ElementUndefined"
    THEN [e EXCEPT !.undefined_attributes = node.attrib]
    ELSE e

\* parser.py 208-210: the new element with its tag, path and line.
CreateElement(node, prev, cls) ==
    NewElement(cls, node.tag,
               IF prev.cls = NoClass THEN <<node.tag>> ELSE Append(prev.path, node.tag),
               node.line)

\* parser.py 212-214
ReadName(node, e) ==
    IF HasName(node) THEN SetField(e, "name", node.attrib["name"]) ELSE e

\* parser.py 229-231
ReadJointType(node, e) ==
    IF e.cls = "ElementJoint" /\ "type" \in DOMAIN node.attrib
    THEN SetField(e, "type", node.attrib["type"])
    ELSE e

\* parser.py 188-235: the checks made before any attribute is converted, in
\* the order of the code: geometry type, class, name, joint type.
HeaderError(node, prev, cls) ==
    IF prev.cls = "ElementGeometry" /\ node.tag \notin available_geometry_types
    THEN ErrorAt("Invalid geometry type", node, node.tag)
    ELSE IF cls = NoClass
    THEN ErrorAt("Invalid element type", node, node.tag)
    ELSE IF ~HasName(node) /\ cls \in NameRequiredClasses
    THEN ErrorAt("is required", node, "name")
    ELSE IF cls = "ElementJoint"
    THEN JointTypeError(node)
    ELSE NoErr

\* parser.py 267-414: the reads of the element's class follow the generic
\* ones (g is their outcome).
ReadClassSteps(node, g) ==
    IF g.err # NoErr THEN g
    ELSE ReadSteps(ClassSteps(g.el.cls), 1, node,
                   [err |-> NoErr, el |-> KeepAllAttributes(g.el, node)])

\* parser.py 237-414: the attribute reads on element e.
ReadAttributes(node, e) ==
    ReadClassSteps(node, ReadSteps(GenericSteps, 1, node, [err |-> NoErr, el |-> e]))

OpenChecked(node, err, e) ==
    IF err # NoErr THEN [err |-> err, el |-> e] ELSE ReadAttributes(node, e)

OpenAs(node, prev, cls) ==
    OpenChecked(node, HeaderError(node, prev, cls),
                ReadJointType(node, ReadName(node, CreateElement(node, prev, cls))))

\* parser.py 182-414, the part of _parse_xml_elements before the children are
\* parsed: the geometry-type check, the class resolution, tag / path / line,
\* name, joint type and the attribute reads.
OpenNode(node, prev) == OpenAs(node, prev, ResolveClass(node, prev))

\* parser.py 439-529: the field of the parent that receives a child with this
\* tag; an assignment replaces what the field held.
SlotTable ==
    [ ElementMaterialGlobal |-> [color |-> "color", texture |-> "texture"],
      ElementMaterial |-> [color |-> "color", texture |-> "texture"],
      ElementLink |-> [visual |-> "visual", collision |-> "collision",
                       inertial |-> "inertial"],
      ElementVisual |-> [geometry |-> "geometry", origin |-> "origin",
                         material |-> "material"],
      ElementCollision |-> [geometry |-> "geometry", origin |-> "origin",
                            verbose |-> "verbose"],
      ElementGeometry |-> [box |-> "geometry", sphere |-> "geometry",
                           cylinder |-> "geometry", mesh |-> "geometry"],
      ElementInertial |-> [origin |-> "origin", inertia |-> "inertia",
                           mass |-> "mass"],
      ElementJoint |-> [origin |-> "origin", limit |-> "limit", parent |-> "parent",
                        child |-> "child", axis |-> "axis", dynamics |-> "dynamics",
                        calibration |-> "calibration",
                        safety_controller |-> "safety_controller",
                        mimic |-> "mimic"],
      ElementTransmission |-> [actuator |-> "actuator", joint |-> "joint",
                               type |-> "type"],
      ElementCamera |-> [image |-> "image"],
      ElementRay |-> [horizontal |-> "horizontal", vertical |-> "vertical"],
      ElementSensor |-> [camera |-> "camera_ray", ray |-> "camera_ray",
                         origin |-> "origin", parent |-> "parent"] ]

\* The names of the elements of a list (e.g. [link.name for link in links]).
NamesOf(list) == { list[i].fields["name"] : i \in 1..Len(list) }

\* AppendToRobot with the slip of appending without the uniqueness check.
AppendKeepingDuplicates(node, element, prev) ==
    CASE node.tag = "link" ->
            [err |-> NoErr, prev |-> [prev EXCEPT !.links = Append(@, element)]]
      [] node.tag = "material" /\ element.cls = "ElementMaterialGlobal" ->
            [err |-> NoErr, prev |-> [prev EXCEPT !.materials = Append(@, element)]]
      [] node.tag = "joint" ->
            [err |-> NoErr, prev |-> [prev EXCEPT !.joints = Append(@, element)]]
      [] node.tag = "transmission" ->
            [err |-> NoErr, prev |-> [prev EXCEPT !.transmissions = Append(@, element)]]
      [] OTHER -> [err |-> NoErr, prev |-> prev]

\* parser.py 421-437: a robot child is appended to its list unless its name
\* is already in it. Returns the robot, or the duplicate-name error.
AppendToRobot(node, element, prev) ==
    CASE node.tag = "link" ->
            IF element.fields["name"] \in NamesOf(prev.links)
            THEN [err |-> ErrorAt("Link name already exists", node,
                                  element.fields["name"]), prev |-> prev]
            ELSE [err |-> NoErr, prev |-> [prev EXCEPT !.links = Append(@, element)]]
      [] node.tag = "material" /\ element.cls = "ElementMaterialGlobal" ->
            IF element.fields["name"] \in NamesOf(prev.materials)
            THEN [err |-> ErrorAt("Material name already exists", node,
                                  element.fields["name"]), prev |-> prev]
            ELSE [err |-> NoErr,
                  prev |-> [prev EXCEPT !.materials = Append(@, element)]]
      [] node.tag = "joint" ->
            IF element.fields["name"] \in NamesOf(prev.joints)
            THEN [err |-> ErrorAt("Joint name already exists", node,
                                  element.fields["name"]), prev |-> prev]
            ELSE [err |-> NoErr, prev |-> [prev EXCEPT !.joints = Append(@, element)]]
      [] node.tag = "transmission" ->
            IF element.fields["name"] \in NamesOf(prev.transmissions)
            THEN [err |-> ErrorAt("Transmission name already exists", node,
                                  element.fields["name"]), prev |-> prev]
            ELSE [err |-> NoErr,
                  prev |-> [prev EXCEPT !.transmissions = Append(@, element)]]
      [] OTHER -> [err |-> NoErr, prev |-> prev]

\* parser.py 420-529: the element is linked into its parent.
Attach(node, element, prev) ==
    IF prev.cls = "ElementRobot" THEN AppendToRobot(node, element, prev)
    ELSE IF /\ prev.cls \in DOMAIN SlotTable
            /\ node.tag \in DOMAIN SlotTable[prev.cls]
         THEN [err |-> NoErr,
               prev |-> SetSlot(prev, SlotTable[prev.cls][node.tag], element)]
         ELSE [err |-> NoErr, prev |-> prev]

\* UndefinedAttributesOf with the slip of discarding what the whitelist does
\* not hold.
UndefinedAttributesDropped(element, node) == EmptyMap

\* parser.py 535-538: the attributes the whitelist of the tag does not hold.
UndefinedAttributesOf(element, node) ==
    LET keys == { k \in DOMAIN node.attrib : ~check_element_attribute_name(element.tag, k) }
    IN  [k \in keys |-> node.attrib[k]]

\* parser.py 531-538: the element is undefined content of its parent.
IsUndefinedContent(element, prev) ==
    prev.cls = "ElementUndefined" \/ element.cls = "ElementUndefined"

WithUndefinedAttributes(node, element, prev) ==
    IF IsUndefinedContent(element, prev) THEN element
    ELSE [element EXCEPT !.undefined_attributes = UndefinedAttributesOf(element, node)]

\* The element after the attachment a to its parent: undefined content is
\* appended to the parent's undefined_elements (there is none at the root).
CloseAttached(el, prev, a) ==
    IF a.err # NoErr THEN [err |-> a.err, el |-> el, prev |-> prev]
    ELSE IF IsUndefinedContent(el, prev)
    THEN IF prev.cls = NoClass
         THEN [err |-> BareError("AttributeError", "undefined_elements"),
               el |-> el, prev |-> prev]
         ELSE [err |-> NoErr, el |-> el,
               prev |-> [a.prev EXCEPT !.undefined_elements = Append(@, el)]]
    ELSE [err |-> NoErr, el |-> el, prev |-> a.prev]

CloseWith(node, el, prev) == CloseAttached(el, prev, Attach(node, el, prev))

\* parser.py 420-540, the part of _parse_xml_elements after the children:
\* the element (with its undefined attributes) is linked into its parent, and
\* an undefined element, or any child of one, is appended to the parent's
\* undefined_elements.
CloseNode(node, element, prev) ==
    CloseWith(node, WithUndefinedAttributes(node, element, prev), prev)

\* _parse_xml_elements on one node: open it, parse its children in document
\* order into it, close it. The first error ends the parse.
RECURSIVE ParseNode(_, _), ParseOpened(_, _, _), ParseClosed(_, _, _),
          ParseChildren(_, _, _), ParseSiblings(_, _, _, _)
ParseNode(node, prev) == ParseOpened(node, prev, OpenNode(node, prev))

ParseOpened(node, prev, o) ==
    IF o.err # NoErr THEN [err |-> o.err, el |-> o.el, prev |-> prev]
    ELSE ParseClosed(node, prev, ParseChildren(node.children, 1, o.el))

ParseClosed(node, prev, c) ==
    IF c.err # NoErr THEN [err |-> c.err, el |-> c.el, prev |-> prev]
    ELSE CloseNode(node, c.el, prev)

\* parser.py 416-418: the children from the i-th on.
ParseChildren(kids, i, element) ==
    IF i > Len(kids) THEN [err |-> NoErr, el |-> element]
    ELSE ParseSiblings(kids, i, element, ParseNode(kids[i], element))

ParseSiblings(kids, i, element, r) ==
    IF r.err # NoErr THEN [err |-> r.err, el |-> element]
    ELSE ParseChildren(kids, i + 1, r.prev)


\* ---------------------------------------------------------------- validation
ErrorAtElement(kind, element, detail) ==
    [kind |-> kind, tag |-> element.tag, line |-> element.line_number,
     detail |-> detail]

\* parser.py 562-571: the visual of the link has a material given by name
\* alone, and no robot-level material has that name.
MaterialDangles(link, robot) ==
    /\ HasSlot(link, "visual")
    /\ HasSlot(link.slots["visual"], "material")
    /\ LET material == link.slots["visual"].slots["material"]
       IN  /\ HasField(material, "name")
           /\ ~HasSlot(material, "color")
           /\ ~HasSlot(material, "texture")
           /\ material.fields["name"] \notin NamesOf(robot.materials)

\* parser.py 588-600: a visual or collision whose geometry holds no shape.
ShapeMissing(link, kind) ==
    /\ HasSlot(link, kind)
    /\ HasSlot(link.slots[kind], "geometry")
    /\ ~HasSlot(link.slots[kind].slots["geometry"], "geometry")

\* URDFParser._validate: the first failing check, in the order of the code,
\* or NoErr.
Validate(robot) ==
    LET links == robot.links
        joints == robot.joints
        dm == { i \in 1..Len(links) : MaterialDangles(links[i], robot) }
        nopc == { i \in 1..Len(joints) :
                    ~HasSlot(joints[i], "parent") \/ ~HasSlot(joints[i], "child") }
        dl == { i \in 1..Len(joints) :
                  \/ joints[i].slots["parent"].fields["link"] \notin NamesOf(links)
                  \/ joints[i].slots["child"].fields["link"] \notin NamesOf(links) }
        ng == { i \in 1..Len(links) :
                  ShapeMissing(links[i], "visual") \/ ShapeMissing(links[i], "collision") }
    IN  IF dm # {}
        THEN LET material == links[First(dm)].slots["visual"].slots["material"]
             IN  ErrorAtElement("Material name not found", material,
                                material.fields["name"])
        ELSE IF nopc # {}
        THEN LET joint == joints[First(nopc)]
             IN  IF ~HasSlot(joint, "parent")
                 THEN ErrorAtElement("Parent link is required", joint, "")
                 ELSE ErrorAtElement("Child link is required", joint, "")
        ELSE IF dl # {}
        THEN LET joint == joints[First(dl)]
                 parent == joint.slots["parent"]
                 child == joint.slots["child"]
             IN  IF parent.fields["link"] \notin NamesOf(links)
                 THEN ErrorAtElement("Parent link not found", parent,
                                     parent.fields["link"])
                 ELSE ErrorAtElement("Child link not found", child,
                                     child.fields["link"])
        ELSE IF ng # {}
        THEN LET link == links[First(ng)]
             IN  IF ShapeMissing(link, "visual")
                 THEN ErrorAtElement("Geometry must have a shape",
                                     link.slots["visual"].slots["geometry"], "")
                 ELSE ErrorAtElement("Geometry must have a shape",
                                     link.slots["collision"].slots["geometry"], "")
        ELSE NoErr

\* ---------------------------------------------------------------- undefined content
\* UndefinedData(element, undefined_element): an entry of the collection, with
\* the tag, path, line and unrecognized attributes of the element it is for.
UndefinedData(e, undefined_element) ==
    [element |-> e, tag |-> e.tag, path |-> e.path, line_number |-> e.line_number,
     undefined_element |-> undefined_element,
     undefined_attributes |-> e.undefined_attributes]

\* IsListed with the slip of never finding an entry.
IsListedNever(undefined_elements, e) == FALSE

\* parser.py 655-657 / 665-667: the list holds an entry with the path and the
\* line of the element.
IsListed(undefined_elements, e) ==
    \E i \in 1..Len(undefined_elements) :
        /\ undefined_elements[i].path = e.path
        /\ undefined_elements[i].line_number = e.line_number

\* elements.py: the fields of a class that hold a child element, in the
\* order of __init__ (the order of element.__dict__).
ChildFields(cls) ==
    CASE cls = "ElementInertial" -> <<"origin", "mass", "inertia">>
      [] cls = "ElementGeometry" -> <<"geometry">>
      [] cls \in {"ElementMaterial", "ElementMaterialGlobal"} -> <<"color", "texture">>
      [] cls = "ElementVisual" -> <<"origin", "geometry", "material">>
      [] cls = "ElementCollision" -> <<"origin", "geometry", "verbose">>
      [] cls = "ElementLink" -> <<"inertial", "visual", "collision">>
      [] cls = "ElementTransmission" -> <<"actuator", "joint", "type">>
      [] cls = "ElementCamera" -> <<"image">>
      [] cls = "ElementRay" -> <<"horizontal", "vertical">>
      [] cls = "ElementSensor" -> <<"origin", "parent", "camera_ray">>
      [] cls = "ElementJoint" ->
            <<"origin", "parent", "child", "axis", "calibration", "dynamics",
              "limit", "safety_controller", "mimic">>
      [] OTHER -> << >>

\* URDFParser._get_undefined_elements_nested: the list after the element, its
\* undefined elements and the elements it holds have been visited.
RECURSIVE _get_undefined_elements_nested(_, _), CollectUndefinedElements(_, _, _),
          CollectList(_, _, _), CollectFields(_, _, _, _)

\* The list is one object that every visit appends to in place: its value is
\* settled before the next element is visited.
Settled(undefined_elements) == Len(undefined_elements) >= 0

\* parser.py 654-661: the undefined elements of the element from the i-th on;
\* one that is listed already is skipped with all its content.
CollectUndefinedElements(elements, i, undefined_elements) ==
    IF Settled(undefined_elements) /\ i > Len(elements) THEN undefined_elements
    ELSE CollectUndefinedElements(elements, i + 1,
            IF IsListed(undefined_elements, elements[i]) THEN undefined_elements
            ELSE _get_undefined_elements_nested(
                     elements[i],
                     Append(undefined_elements, UndefinedData(elements[i], TRUE))))

\* parser.py 663-670: the element's own undefined attributes.
CollectOwnAttributes(element, undefined_elements) ==
    IF /\ element.undefined_attributes # EmptyMap
       /\ ~IsListed(undefined_elements, element)
    THEN Append(undefined_elements, UndefinedData(element, FALSE))
    ELSE undefined_elements

\* parser.py 673-680: one list of the robot.
CollectList(elements, i, undefined_elements) ==
    IF Settled(undefined_elements) /\ i > Len(elements) THEN undefined_elements
    ELSE CollectList(elements, i + 1,
                     _get_undefined_elements_nested(elements[i], undefined_elements))

\* parser.py 682-683: the fields of the element that hold an element.
HeldFields(element) ==
    SelectSeq(ChildFields(element.cls), LAMBDA field : HasSlot(element, field))

\* parser.py 682-684: the elements held by the fields of any other element.
CollectFields(element, fields, i, undefined_elements) ==
    IF Settled(undefined_elements) /\ i > Len(fields) THEN undefined_elements
    ELSE CollectFields(element, fields, i + 1,
            _get_undefined_elements_nested(element.slots[fields[i]],
                                           undefined_elements))

\* parser.py 672-684
CollectHeld(element, undefined_elements) ==
    IF element.cls = "ElementRobot"
    THEN CollectList(element.transmissions, 1,
           CollectList(element.joints, 1,
             CollectList(element.links, 1,
               CollectList(element.materials, 1, undefined_elements))))
    ELSE CollectFields(element, HeldFields(element), 1, undefined_elements)

_get_undefined_elements_nested(element, undefined_elements) ==
    CollectHeld(element,
        CollectOwnAttributes(element,
            CollectUndefinedElements(element.undefined_elements, 1, undefined_elements)))

\* URDFParser.get_undefined_elements
get_undefined_elements(root) == _get_undefined_elements_nested(root, << >>)

\* ---------------------------------------------------------------- source documents
\* An XML node as ElementTree hands it to the parser: tag, attrib, children;
\* line is what line_info maps the node to.
Node(tag, attrib, children) ==
    [tag |-> tag, attrib |-> attrib, children |-> children, line |-> 0]

RECURSIVE Size(_), SizeAll(_, _)
Size(node) == 1 + SizeAll(node.children, 1)
SizeAll(kids, i) == IF i > Len(kids) THEN 0 ELSE Size(kids[i]) + SizeAll(kids, i + 1)

\* LineNumberTrackingParser.parse_with_line_numbers: every node gets the
\* 1-based line of its start tag; the model writes one start tag per line, so
\* the lines follow the document order.
RECURSIVE Numbered(_, _), NumberedAll(_, _)
Numbered(node, line) ==
    [node EXCEPT !.line = line, !.children = NumberedAll(node.children, line + 1)]
NumberedAll(kids, line) ==
    IF Len(kids) = 0 THEN <<>>
    ELSE <<Numbered(Head(kids), line)>>
         \o NumberedAll(Tail(kids), line + Size(Head(kids)))


\* The documents the parser is run on: the robot-level children are drawn
\* from these subtrees, in any order and with repetition.
Box == Node("box", "size" :> "1 2 3", <<>>)
Geometry == Node("geometry", EmptyMap, <<Box>>)
MaterialRef(name) == Node("material", "name" :> name, <<>>)
ColorNode == Node("color", "rgba" :> "1 0 0 1", <<>>)
Visual(kids) == Node("visual", EmptyMap, kids)
Link(name, kids) == Node("link", "name" :> name, kids)
Joint(name, type, kids) == Node("joint", ("name" :> name) @@ ("type" :> type), kids)
Parent(link) == Node("parent", "link" :> link, <<>>)
Child(link) == Node("child", "link" :> link, <<>>)

LinkShapes ==
    { Link("A", <<>>),
      Link("B", <<>>),
      Link("B", << Visual(<<Geometry, MaterialRef("m1")>>) >>),
      Link("A", << Visual(<<Geometry, MaterialRef("m2")>>), Visual(<<Geometry>>) >>),
      Link("A", << Visual(<<Geometry,
                            Node("material", "name" :> "m2", <<ColorNode>>)>>) >>),
      Node("link", ("name" :> "B") @@ ("data" :> "x"),
           << Node("inertial", EmptyMap, <<Node("mass", "value" :> "1", <<>>)>>) >>),
      Link("B", << Geometry >>),
      Node("link", EmptyMap, <<>>),
      \* unrecognized content beneath a visual that a later visual follows
      Link("B", << Visual(<<Geometry, Node("note", "text" :> "t", <<>>)>>),
                   Visual(<<Geometry>>) >>),
      \* a mesh without its filename
      Link("A", << Visual(<< Node("geometry", EmptyMap,
                                  << Node("mesh", "scale" :> "1 2 3", <<>>) >>) >>) >>),
      \* unrecognized attributes on recognized elements at every depth
      Link("C", << Node("visual", "data" :> "custom_data",
                        << Node("geometry", "units" :> "m",
                                << Node("box", ("size" :> "1 2 3") @@ ("tint" :> "red"),
                                        <<>>) >>),
                           Node("origin", ("xyz" :> "0 0 1") @@ ("frame" :> "f"), <<>>) >>) >>),
      Link("A", << Visual(<<Geometry,
                    Node("custom", EmptyMap,
                         << Node("item1", ("name" :> "data1") @@ ("value" :> "1"), <<>>),
                            Node("origin", "data" :> "y", <<>>) >>)>>) >>) }

JointShapes ==
    { Joint("J1", "fixed", <<Parent("A"), Child("B")>>),
      Joint("J2", "revolute", <<Parent("B"), Child("A")>>),
      Joint("J2", "fixed", <<Parent("A"), Child("X")>>),
      Joint("J1", "fixed", <<Child("B")>>),
      Joint("J1", "fixed", <<Parent("X"), Parent("A"), Child("B")>>),
      Node("joint", "name" :> "J2", <<Parent("A"), Child("B")>>),
      \* sub-elements of a joint without their required attribute
      Joint("J1", "fixed", <<Node("parent", EmptyMap, <<>>), Child("B")>>),
      Joint("J1", "revolute",
            <<Parent("A"), Child("B"), Node("mimic", "multiplier" :> "2", <<>>)>>),
      Joint("J1", "revolute",
            <<Parent("A"), Child("B"),
              Node("safety_controller", "k_position" :> "1", <<>>)>>),
      Joint("J1", "revolute",
            <<Parent("A"), Child("B"),
              Node("safety_controller", "soft_lower_limit" :> "abc", <<>>)>>) }

MaterialShapes ==
    { Node("material", "name" :> "m1", <<ColorNode>>),
      Node("material", ("name" :> "m1") @@ ("shade" :> "dark"), <<>>),
      Node("material", EmptyMap, <<ColorNode>>) }

OtherShapes ==
    { \* reserved tags and typed attribute names beneath an unrecognized element
      Node("custom", EmptyMap,
           << Node("link", EmptyMap, <<Node("geometry", EmptyMap, <<>>)>>),
              Node("joint", "xyz" :> "0 0 1", <<>>) >>),
      Node("custom", "name" :> "c", << Node("item", "xyz" :> "1 2", <<>>) >>),
      Node("custom", EmptyMap,
           << Node("group", EmptyMap, <<Node("mesh", "radius" :> "abc", <<>>)>>) >>),
      \* reserved tags in the wrong place
      Node("robot", "name" :> "inner", <<>>),
      Node("visual", EmptyMap, <<>>),
      Node("gazebo", EmptyMap, <<>>),
      Node("transmission", "name" :> "t1", <<>>),
      Node("sensor", ("name" :> "s1") @@ ("rate" :> "fast"), <<>>),
      Node("transmission", "type" :> "simple", <<>>) }

ChildShapes == LinkShapes \cup JointShapes \cup MaterialShapes \cup OtherShapes

RootShapes ==
    { Node("robot", "name" :> "r", <<>>),
      Node("robot", ("name" :> "r") @@ ("version" :> "1.0") @@ ("extra" :> "e"), <<>>),
      Node("robot", EmptyMap, <<>>) }

\* ================================================================ conversion
\* The documents the converter is run on: links named by a prefix of
\* LinkNames, each with or without content, and up to MaxJoints joints
\* between declared links, in any order and with repetition; in the third
\* style with names that are no legal prim names and with unrecognized
\* content in the links and beside them.
LinkNames == <<"A", "B", "C">>

\* The content that makes a link a body: one of the three kinds per link.
LinkContent ==
    << << Node("inertial", EmptyMap, <<Node("mass", "value" :> "1", <<>>)>>) >>,
       << Visual(<<Geometry>>) >>,
       << Node("collision", EmptyMap, <<Geometry>>) >> >>

\* The content of the links in the third style: the first link holds
\* unrecognized elements that carry the name of the second link, one of
\* them nested in the other; the second a visual and a collision of the
\* same shape.
Unrecognized(tag, children) == Node(tag, EmptyMap, children)
RichContent ==
    << << Node("inertial", EmptyMap, <<Node("mass", "value" :> "1", <<>>)>>),
          Unrecognized("B", << Unrecognized("B", <<>>) >>),
          Unrecognized("B", <<>>) >>,
       << Visual(<<Geometry>>), Node("collision", EmptyMap, <<Geometry>>) >>,
       << Node("collision", EmptyMap, <<Geometry>>),
          Unrecognized("my-tag", <<>>) >> >>

\* The unrecognized elements beside the links in the third style; the tag of
\* the last begins like a link's.
RichExtras ==
    << Unrecognized("note", <<>>), Node("note", "text" :> "t", <<>>),
       Unrecognized("linkage", <<>>) >>

\* What a joint of the third style holds besides its parent and child: the
\* first mimics the second with the default coefficients, the second mimics
\* the first with its own, the third (floating) mimics the first.
Mimic(attrib) == Node("mimic", attrib, <<>>)
MimicChildren ==
    << << Mimic("joint" :> "J2") >>,
       << Mimic(("joint" :> "J-1") @@ ("multiplier" :> "2") @@ ("offset" :> "0.5")) >>,
       << Mimic("joint" :> "J-1") >>,
       << >> >>
NoChildren == << << >>, << >>, << >>, << >> >>
\* In the second style the floating joint mimics the first joint.
FloatingMimic == << << >>, << Mimic("joint" :> "root_joint") >>, << >>, << >> >>

\* The robot's name, the links' content, the joints' names, types and
\* further children by position, and the elements beside them, in three
\* styles: the second declares a joint that carries the name of the synthetic
\* root joint and a floating joint that mimics it, the joints of the third
\* mimic one another.
JointStyles ==
    { [robot |-> "r", content |-> LinkContent, extras |-> << >>,
       names |-> <<"J1", "J2", "J3", "J4">>,
       types |-> <<"revolute", "fixed", "floating", "prismatic">>,
       more |-> NoChildren],
      [robot |-> "r", content |-> LinkContent, extras |-> << >>,
       names |-> <<"root_joint", "J2", "J3", "J4">>,
       types |-> <<"fixed", "floating", "continuous", "planar">>,
       more |-> FloatingMimic],
      [robot |-> "my-robot", content |-> RichContent, extras |-> RichExtras,
       names |-> <<"J-1", "J2", "J3", "J4">>,
       types |-> <<"revolute", "prismatic", "floating", "continuous">>,
       more |-> MimicChildren] }

ConvLinks(n, empty, style) ==
    [i \in 1..n |-> Link(LinkNames[i], IF i \in empty THEN <<>> ELSE style.content[i])]

ConvJoints(style, ends) ==
    [k \in 1..Len(ends) |->
        Joint(style.names[k], style.types[k],
              <<Parent(LinkNames[ends[k][1]]), Child(LinkNames[ends[k][2]])>>
                  \o style.more[k])]

ConvDocs ==
    { Node("robot", "name" :> style.robot,
           ConvLinks(n, empty, style) \o ConvJoints(style, ends) \o style.extras) :
        <<n, empty, style, ends>> \in
          UNION { UNION { {n} \X (SUBSET (1..n)) \X JointStyles
                              \X [1..k -> (1..n) \X (1..n)] :
                          k \in 0..MaxJoints } :
                  n \in 0..Len(LinkNames) } }

\* ---------------------------------------------------------------- hierarchy
ParentLink(joint) == joint.slots["parent"].fields["link"]
ChildLink(joint) == joint.slots["child"].fields["link"]

\* The link of the robot that carries the name (names are unique).
LinkNamed(robot, name) ==
    robot.links[CHOOSE i \in 1..Len(robot.links) : robot.links[i].fields["name"] = name]

NoLink == "<no link>"
NoHierarchy == [root |-> NoLink, joints |-> EmptyMap]

\* A link is root-eligible iff no joint names it as its child.
RootCandidates(robot) ==
    { name \in NamesOf(robot.links) :
        \A k \in 1..Len(robot.joints) : ChildLink(robot.joints[k]) # name }

\* UniqueRoot with the slip of settling on some eligible link when several are.
PickAnyRoot(robot) ==
    IF RootCandidates(robot) = {} THEN NoLink
    ELSE CHOOSE name \in RootCandidates(robot) : TRUE

\* The root of the hierarchy: the one root-eligible link, or none.
UniqueRoot(robot) ==
    IF Cardinality(RootCandidates(robot)) = 1
    THEN CHOOSE name \in RootCandidates(robot) : TRUE
    ELSE NoLink

\* LinkHierarchy: the root, and per link the joints that leave it, in
\* document order; or the error when the root is not unique.
BuildLinkHierarchy(robot) ==
    IF UniqueRoot(robot) = NoLink
    THEN [err |-> BareError("ValueError", "Closed loop articulations are not supported"),
          hierarchy |-> NoHierarchy]
    ELSE [err |-> NoErr,
          hierarchy |->
            [root |-> UniqueRoot(robot),
             joints |-> [name \in NamesOf(robot.links) |->
                           SelectSeq([k \in 1..Len(robot.joints) |-> k],
                                     LAMBDA k : ParentLink(robot.joints[k]) = name)]]]

\* LinkHierarchy.get_link_joints / get_link_children
get_link_joints(hierarchy, name) == hierarchy.joints[name]
get_link_children(hierarchy, robot, name) ==
    [i \in 1..Len(hierarchy.joints[name]) |->
        ChildLink(robot.joints[hierarchy.joints[name][i]])]

\* ---------------------------------------------------------------- prim names
\* A prim name the name cache has issued: the requested name and the suffix
\* that made it unique in its scope (0: the name itself).
SafeName(name, n) == <<name, n>>

\* usdex.core.getValidPrimName: a legal name is kept; a name with characters
\* that no prim name may hold is transcoded, reversibly, to a legal one.
getValidPrimName(name) ==
    CASE name = "my-robot" -> "tn__myrobot_"
      [] name = "my-tag"   -> "tn__mytag_"
      [] name = "J-1"      -> "tn__J1_"
      [] OTHER -> name
DefaultPrim == << >>
GeometryScope == << SafeName("Geometry", 0) >>
PhysicsScope == << SafeName("Physics", 0) >>

IssuedIn(cache, parent) == { c[2] : c \in { d \in cache : d[1] = parent } }

\* NameCache.getPrimName: the valid form of the name if the scope has not
\* issued it yet, else that form with the least free numeric suffix.
getPrimName(cache, parent, name) ==
    LET used == IssuedIn(cache, parent)
        free == { n \in 0..Cardinality(used) :
                    SafeName(getValidPrimName(name), n) \notin used }
    IN  SafeName(getValidPrimName(name), First(free))

Issue(cache, parent, safe) == cache \cup { <<parent, safe>> }

\* NameCache.getPrimNames: the names are issued one after the other.
RECURSIVE getPrimNames(_, _, _)
getPrimNames(cache, parent, names) ==
    IF names = << >> THEN [cache |-> cache, names |-> << >>]
    ELSE LET safe == getPrimName(cache, parent, Head(names))
             rest == getPrimNames(Issue(cache, parent, safe), parent, Tail(names))
         IN  [cache |-> rest.cache, names |-> <<safe>> \o rest.names]

NoDisplayName == "<no display name>"

\* DisplayName with the slip of labelling a prim only when its name got a
\* numeric suffix.
DisplayNameWhenSuffixed(name, safe) == IF safe[2] # 0 THEN name ELSE NoDisplayName

\* setDisplayName is called when the issued name differs from the source's.
DisplayName(name, safe) == IF safe # SafeName(name, 0) THEN name ELSE NoDisplayName

\* ---------------------------------------------------------------- links
\* link.visuals / link.collisions: what the parser retained on the link.
visuals(link) == IF HasSlot(link, "visual") THEN <<link.slots["visual"]>> ELSE << >>
collisions(link) == IF HasSlot(link, "collision") THEN <<link.slots["collision"]>> ELSE << >>

\* link.py 64 / 262: no inertial, no visuals and no collisions.
HasNoContent(link) ==
    /\ ~HasSlot(link, "inertial")
    /\ Len(visuals(link)) = 0
    /\ Len(collisions(link)) = 0

\* convert_link 61-64
IsGhostLink(link, hierarchy) ==
    link.fields["name"] = hierarchy.root /\ HasNoContent(link)

\* AppliesRigidBody with the slip of marking the ghost root as well.
AppliesRigidBodyToEveryLink(link, hierarchy) == TRUE

\* convert_link 68: the links that get the rigid-body marking.
AppliesRigidBody(link, hierarchy) ==
    link.fields["name"] # hierarchy.root \/ ~IsGhostLink(link, hierarchy)

\* convert_link 72: the links that get the articulation-root marking.
AppliesArticulationRoot(link, hierarchy, having_articulation_root) ==
    ~IsGhostLink(link, hierarchy) /\ ~having_articulation_root

\* One call of convert_link on the stack: the link, the prim it is authored
\* under, the flag it was called with (and updates), and the child it
\* converts next (0: the body before the loop has not run yet).
Frame(link, parent, having_articulation_root) ==
    [link |-> link, parent |-> parent, path |-> << >>,
     having_articulation_root |-> having_articulation_root, next |-> 0]

\* ---------------------------------------------------------------- joints
\* physics_joints 291: body0 of a declared joint.
Body0(references, joint, is_ghost_link) ==
    IF ~is_ghost_link THEN references[ParentLink(joint)] ELSE DefaultPrim

\* physics_joints 291-292: the lookups that raise KeyError.
LookupFails(references, joint, is_ghost_link) ==
    \/ ~is_ghost_link /\ ParentLink(joint) \notin DOMAIN references
    \/ ChildLink(joint) \notin DOMAIN references

\* physics_joints 303-316: every type but floating defines a joint prim.
DefinesPhysicsJoint(joint) ==
    joint.fields["type"] \in {"fixed", "revolute", "continuous", "prismatic", "planar"}

RootJointName == "root_joint"

\* RootJointNaming with the slip of defining the joint under its literal
\* name, which the name cache then never hears of.
RootJointNamingUncached(cache) ==
    [name |-> SafeName(RootJointName, 0), cache |-> cache]

\* physics_joints 267-268: the prim name of the synthetic joint, and the
\* name cache once it has issued it.
RootJointNaming(cache) ==
    [name |-> getPrimName(cache, PhysicsScope, RootJointName),
     cache |-> Issue(cache, PhysicsScope, getPrimName(cache, PhysicsScope, RootJointName))]

\* ---------------------------------------------------------------- mimic
\* ElementMimic._defaults
MimicDefaults == ("multiplier" :> "1") @@ ("offset" :> "0")

\* ElementBase.get_with_default on the mimic of a joint.
get_with_default(element, attr_name) ==
    IF attr_name \in DOMAIN element.fields THEN element.fields[attr_name]
    ELSE MimicDefaults[attr_name]

\* physics_joints 326: the joints whose relation the second pass sets.
HasMimic(joint) ==
    HasSlot(joint, "mimic") /\ "joint" \in DOMAIN joint.slots["mimic"].fields

\* MimicPassReady with the slip of setting a relation as soon as the
\* mimicking joint has been defined.
MimicPassEager(next, joints) == TRUE

\* physics_joints 286 / 336: the second loop starts when the first has ended.
MimicPassReady(next, joints) == next > Len(joints)

\* physics_joints 341: the first declared joint that carries the name.
JointNamed(joints, name) ==
    joints[First({ k \in 1..Len(joints) : joints[k].fields["name"] = name })]

\* set_physics_mimic_joint: the relation stored on the mimicking joint's prim.
set_physics_mimic_joint(element_joint, ref_prim) ==
    [mimicEnabled |-> TRUE,
     mimicCoef0 |-> get_with_default(element_joint.slots["mimic"], "offset"),
     mimicCoef1 |-> get_with_default(element_joint.slots["mimic"], "multiplier"),
     mimicJoint |-> ref_prim]

\* ---------------------------------------------------------------- authored names
\* What the conversion has asked of the name cache and authored under the
\* names it got: the cache, the requests in order, the scopes of unrecognized
\* elements, and the unrecognized elements a scope was authored for.
Authoring(cache, requests, authored_scopes, checked_paths) ==
    [cache |-> cache, issued |-> requests, scopes |-> authored_scopes,
     checked |-> checked_paths]

\* One request to the name cache: who asked, under which prim, for which
\* name, and the name the cache issued.
Request(kind, parent, name, safe) ==
    [kind |-> kind, parent |-> parent, name |-> name, safe |-> safe]

\* The requests of one call of getPrimNames.
Requests(kind, parent, names, safe_names) ==
    [i \in 1..Len(names) |-> Request(kind, parent, names[i], safe_names[i])]

\* The authoring once a name has been requested and issued.
Requested(a, kind, parent, name, safe) ==
    [a EXCEPT !.cache = Issue(@, parent, safe),
              !.issued = Append(@, Request(kind, parent, name, safe))]

\* defineScope and setDisplayName: the scope authored for a tag.
Scope(parent, tag, safe) ==
    [path |-> Append(parent, safe), tag |-> tag, display_name |-> DisplayName(tag, safe)]

Tags(elements) == [i \in 1..Len(elements) |-> elements[i].tag]

RECURSIVE convert_undefined_elements(_, _, _, _), DefineUndefinedScopes(_, _, _, _, _, _)

\* undefined.py 79-84: the content of an unrecognized element is authored
\* under its scope when the collection lists the element.
ScopeContent(elem, prim, data_undefined_elements, a) ==
    IF IsListed(data_undefined_elements, elem)
    THEN convert_undefined_elements(elem, prim, data_undefined_elements, a)
    ELSE a

\* undefined.py 73-84: one scope per unrecognized element, in order.
DefineUndefinedScopes(elems, safe_names, i, target_prim, data_undefined_elements, a) ==
    IF i > Len(elems) THEN a
    ELSE DefineUndefinedScopes(elems, safe_names, i + 1, target_prim,
             data_undefined_elements,
             ScopeContent(elems[i], Append(target_prim, safe_names[i]),
                 data_undefined_elements,
                 [a EXCEPT !.scopes = @ \cup { Scope(target_prim, elems[i].tag,
                                                     safe_names[i]) },
                           !.checked = @ \cup { <<elems[i].path,
                                                  elems[i].line_number>> }]))

\* NameUndefinedScopes with the slip of asking a name cache of its own,
\* which the data's name cache never hears of.
NameUndefinedScopesApart(element, target_prim, data_undefined_elements, a, named) ==
    DefineUndefinedScopes(element.undefined_elements, named.names, 1, target_prim,
        data_undefined_elements,
        [a EXCEPT !.issued = @ \o Requests("undefined", target_prim,
                                           Tags(element.undefined_elements),
                                           named.names)])

\* undefined.py 71-72: the names of the scopes are requested together.
NameUndefinedScopes(element, target_prim, data_undefined_elements, a, named) ==
    DefineUndefinedScopes(element.undefined_elements, named.names, 1, target_prim,
        data_undefined_elements,
        [a EXCEPT !.cache = named.cache,
                  !.issued = @ \o Requests("undefined", target_prim,
                                           Tags(element.undefined_elements),
                                           named.names)])

\* convert_undefined_elements for an element that is not unsupported: a scope
\* under the prim for each of its unrecognized elements, recursively.
convert_undefined_elements(element, prim, data_undefined_elements, a) ==
    IF Len(element.undefined_elements) = 0 THEN a
    ELSE NameUndefinedScopes(element, prim, data_undefined_elements, a,
             getPrimNames(a.cache, prim, Tags(element.undefined_elements)))

\* ---------------------------------------------------------------- geometries
\* link.py 82-92: the visuals and collisions that have a shape.
HasShape(entry) ==
    HasSlot(entry, "geometry") /\ HasSlot(entry.slots["geometry"], "geometry")
geometries(link) ==
    SelectSeq(visuals(link), HasShape) \o SelectSeq(collisions(link), HasShape)

\* get_geometry_name: a geometry is named after its shape.
get_geometry_name(geometry_base) == geometry_base.slots["geometry"].slots["geometry"].tag

GeometryNames(link) ==
    [i \in 1..Len(geometries(link)) |-> get_geometry_name(geometries(link)[i])]

\* link.py 94-95: the names of the geometries are requested together.
NameGeometries(link_prim, names, a, named) ==
    [a EXCEPT !.cache = named.cache,
              !.issued = @ \o Requests("geometry", link_prim, names, named.names)]

\* convert_link 45-95: what the link asks of the name cache and authors
\* besides its own prim.
LinkAuthoring(link, parent, link_safe_name, data_undefined_elements, a) ==
    LET scoped == convert_undefined_elements(link, Append(parent, link_safe_name),
                      data_undefined_elements,
                      Requested(a, "link", parent, link.fields["name"], link_safe_name))
    IN  NameGeometries(Append(parent, link_safe_name), GeometryNames(link), scoped,
            getPrimNames(scoped.cache, Append(parent, link_safe_name),
                         GeometryNames(link)))

\* ---------------------------------------------------------------- catch-all scope
\* str.startswith on a tag, for the tags of the documents above.
startswith(tag, prefix) ==
    \/ tag = prefix
    \/ <<tag, prefix>> \in { <<"linkage", "link">> }

\* convert_undefined 135-141: an entry is skipped as authored with its link,
\* joint or material when its path begins with "/robot/link", "/robot/joint"
\* or "/robot/material"; the path is compared as a string, so the second tag
\* of the path need only begin with the owner's tag.
OwnedByStructure(undefined_data) ==
    /\ Len(undefined_data.path) >= 2
    /\ \E owner \in {"link", "joint", "material"} :
           startswith(undefined_data.path[2], owner)

CustomName == "custom"

\* convert_undefined 155-161: the catch-all scope, named and authored once.
CustomScope(a) ==
    IF \E r \in 1..Len(a.issued) : a.issued[r].kind = "custom" THEN a
    ELSE [ Requested(a, "custom", GeometryScope, CustomName,
                     getPrimName(a.cache, GeometryScope, CustomName))
           EXCEPT !.scopes = @ \cup { Scope(GeometryScope, CustomName,
                                            getPrimName(a.cache, GeometryScope,
                                                        CustomName)) } ]

\* The prim of the catch-all scope.
CustomPrim(a) ==
    Append(GeometryScope,
           a.issued[First({ r \in 1..Len(a.issued) : a.issued[r].kind = "custom" })].safe)

\* convert_undefined 163-170: the scope of one entry under the catch-all
\* scope, and the entry's content under it.
CustomEntry(undefined_data, data_undefined_elements, a, safe_name) ==
    convert_undefined_elements(undefined_data.element,
        Append(CustomPrim(a), safe_name), data_undefined_elements,
        [ Requested(a, "custom entry", CustomPrim(a), undefined_data.tag, safe_name)
          EXCEPT !.scopes = @ \cup { Scope(CustomPrim(a), undefined_data.tag, safe_name) } ])

\* convert_undefined 135-170: the entries of the collection in order.
RECURSIVE ConvertUndefinedFrom(_, _, _)
ConvertUndefinedFrom(data_undefined_elements, i, a) ==
    IF i > Len(data_undefined_elements) THEN a
    ELSE ConvertUndefinedFrom(data_undefined_elements, i + 1,
           IF \/ OwnedByStructure(data_undefined_elements[i])
              \/ <<data_undefined_elements[i].path,
                   data_undefined_elements[i].line_number>> \in a.checked
           THEN a
           ELSE CustomEntry(data_undefined_elements[i], data_undefined_elements,
                            CustomScope(a),
                            getPrimName(CustomScope(a).cache, CustomPrim(CustomScope(a)),
                                        data_undefined_elements[i].tag)))

\* convert_undefined: nothing is authored for an empty collection; the
\* checked paths start empty.
convert_undefined(data_undefined_elements, a) ==
    ConvertUndefinedFrom(data_undefined_elements, 1, [a EXCEPT !.checked = {}])

\* ---------------------------------------------------------------- asset
\* convert.py 84-98: the default prim of the asset is named after the robot.
AssetPrim(robot_name) ==
    [name |-> getValidPrimName(robot_name),
     display_name |-> IF getValidPrimName(robot_name) # robot_name
                      THEN robot_name ELSE NoDisplayName]
NoAsset == [name |-> "<no asset>", display_name |-> NoDisplayName]

\* ---------------------------------------------------------------- diagnostics
\* Converter.warn: the known limitations the document runs into.
HasJointWith(robot, slot) ==
    \E k \in 1..Len(robot.joints) : HasSlot(robot.joints[k], slot)

warn(robot) ==
    (IF Len(robot.transmissions) > 0 THEN {"Transmissions are not supported"} ELSE {})
    \cup (IF \E i \in 1..Len(robot.undefined_elements) :
                robot.undefined_elements[i].tag = "gazebo"
          THEN {"Gazebo is not supported"} ELSE {})
    \cup (IF HasJointWith(robot, "calibration") THEN {"Calibration is not supported"} ELSE {})
    \cup (IF HasJointWith(robot, "dynamics") THEN {"Dynamics is not supported"} ELSE {})
    \cup (IF HasJointWith(robot, "mimic") THEN {"Mimic is not supported"} ELSE {})
    \cup (IF HasJointWith(robot, "safety_controller")
          THEN {"Safety controller is not supported"} ELSE {})

\* ---------------------------------------------------------------- the call
\* What the input path and the output path of a call may lead to.
InputFiles == {"file", "directory", "missing"}
OutputDirs == {"directory", "missing", "file"}

\* Documents that the parser does not accept: a robot without a name, two
\* links of one name, a root that is no robot.
UnparsableDocs ==
    { Node("robot", EmptyMap, <<>>),
      Node("robot", "name" :> "r", << Link("A", <<>>), Link("A", <<>>) >>),
      Node("link", "name" :> "r", <<>>) }

\* URDFParser.parse 95-99: whatever the parse or the validation raises
\* leaves parse() as a RuntimeError.
ErrorParsingXML(err) == [err EXCEPT !.kind = "RuntimeError"]


\* ---------------------------------------------------------------- planar joints
\* The components of the axes a planar joint is defined for run over
\* -MaxAxis..MaxAxis.
MaxAxis == 2
Axes == (-MaxAxis..MaxAxis) \X (-MaxAxis..MaxAxis) \X (-MaxAxis..MaxAxis)

XAxis == <<1, 0, 0>>
Dot(u, v) == u[1] * v[1] + u[2] * v[2] + u[3] * v[3]
Cross(u, v) ==
    << u[2] * v[3] - u[3] * v[2], u[3] * v[1] - u[1] * v[3], u[1] * v[2] - u[2] * v[1] >>

\* Gf.Quatd(real, i, j, k) and Gf.Quatd.GetIdentity().
Quatd(real, i, j, k) == [real |-> real, imaginary |-> <<i, j, k>>]
QuatIdentity == Quatd(1, 0, 0, 0)

\* _axis.GetLength() < epsilon, for an axis of integer components.
IsNull(axis) == axis = <<0, 0, 0>>

\* abs(_axis[i] - s) < epsilon for _axis = axis.GetNormalized() and s = 1 or
\* -1: with integer components up to MaxAxis the normalized component is
\* within the float32 epsilon of s only when it is s, which is when the axis
\* points along s times the i-th direction.
IsAlong(axis, i, s) ==
    /\ axis[i] * s > 0
    /\ \A j \in (1..3) \ {i} : axis[j] = 0

\* The components of axis.GetNormalized() when the axis is along a direction.
Normalized(axis) ==
    [i \in 1..3 |-> IF axis[i] > 0 THEN 1 ELSE IF axis[i] < 0 THEN 0 - 1 ELSE 0]

\* _align_vector_to_x_axis: the rotation about the cross product of the X
\* axis and the axis, by the angle whose cosine is their dot product; the
\* rotation is kept as these two.
_align_vector_to_x_axis(axis) ==
    IF Cross(XAxis, axis) = <<0, 0, 0>> THEN QuatIdentity
    ELSE [rotation_axis |-> Cross(XAxis, axis), dot_product |-> Dot(axis, XAxis)]

\* _get_axis_alignment with the slip of aligning every axis but the three
\* positive directions to the X axis.
AlignNegativeToX(axis) ==
    CASE IsNull(axis) -> [axis_token |-> "x", orientation |-> QuatIdentity]
      [] IsAlong(axis, 1, 1) -> [axis_token |-> "x", orientation |-> QuatIdentity]
      [] IsAlong(axis, 2, 1) -> [axis_token |-> "y", orientation |-> QuatIdentity]
      [] IsAlong(axis, 3, 1) -> [axis_token |-> "z", orientation |-> QuatIdentity]
      [] OTHER -> [axis_token |-> "x", orientation |-> _align_vector_to_x_axis(axis)]

\* _get_axis_alignment: the token of the axis the plane is normal to and the
\* orientation of the joint frame (the identity times the correction).
_get_axis_alignment(axis) ==
    CASE IsNull(axis) -> [axis_token |-> "x", orientation |-> QuatIdentity]
      [] IsAlong(axis, 1, 1) -> [axis_token |-> "x", orientation |-> QuatIdentity]
      [] IsAlong(axis, 2, 1) -> [axis_token |-> "y", orientation |-> QuatIdentity]
      [] IsAlong(axis, 3, 1) -> [axis_token |-> "z", orientation |-> QuatIdentity]
      [] IsAlong(axis, 1, 0 - 1) ->
           [axis_token |-> "x",
            orientation |-> Quatd(Normalized(axis)[2], Normalized(axis)[3],
                                  Normalized(axis)[1], 0)]
      [] IsAlong(axis, 2, 0 - 1) ->
           [axis_token |-> "y",
            orientation |-> Quatd(Normalized(axis)[1], Normalized(axis)[2],
                                  Normalized(axis)[3], 0)]
      [] IsAlong(axis, 3, 0 - 1) ->
           [axis_token |-> "z",
            orientation |-> Quatd(Normalized(axis)[2], Normalized(axis)[3],
                                  Normalized(axis)[1], 0)]
      [] OTHER -> [axis_token |-> "x", orientation |-> _align_vector_to_x_axis(axis)]

\* UsdPhysics.LimitAPI.Apply(prim, token) with low and high set.
Limit(token, low, high) == [token |-> token, low |-> low, high |-> high]

\* define_physics_planar_joint 43-81: the limits applied for an axis token.
PlanarLimits(axis_token) ==
    CASE axis_token = "x" -> { Limit("transX", 0, 0), Limit("rotY", 0, 0), Limit("rotZ", 0, 0) }
      [] axis_token = "y" -> { Limit("transY", 0, 0), Limit("rotX", 0, 0), Limit("rotZ", 0, 0) }
      [] axis_token = "z" -> { Limit("transZ", 0, 0), Limit("rotX", 0, 0), Limit("rotY", 0, 0) }
      [] OTHER -> {}

\* define_physics_planar_joint: the joint with its limits and the orientation
\* its local rotations are computed from.
define_physics_planar_joint(axis, aligned) ==
    [limits |-> PlanarLimits(aligned.axis_token), orientation |-> aligned.orientation]

NoAxis == <<0, 0, 0>>
NoPlanarJoint == [limits |-> {}, orientation |-> QuatIdentity]

\* ---------------------------------------------------------------- inertia
\* Moments of inertia are counted in units of 1e-10; the tensors the
\* extraction is run on are diagonal, with moments that lie within the
\* tolerance of one another (1..MaxMoment) or far apart (the multiples of
\* MomentGap).
MaxMoment == 3

\* _canonicalize_eigenvectors 147-148: the tolerance 1e-9, in units of 1e-10.
Tolerance == 10

MomentGap == Tolerance + Tolerance
Moments == (1..MaxMoment) \cup { MomentGap * k : k \in 1..MaxMoment }

\* Gf.IsClose(a, b, epsilon)
IsClose(a, b, epsilon) == (IF a >= b THEN a - b ELSE b - a) < epsilon

Unit(i) == [k \in 1..3 |-> IF k = i THEN 1 ELSE 0]
Scaled(s, v) == << s * v[1], s * v[2], s * v[3] >>
Minus(u, v) == << u[1] - v[1], u[2] - v[2], u[3] - v[3] >>
Identity3 == << Unit(1), Unit(2), Unit(3) >>

\* np.linalg.eigh on the diagonal tensor: the moments in ascending order,
\* each with a unit eigenvector along its own direction, of either sign; which
\* of two equal moments comes first, and the signs, are the library's choice.
\* The eigenvectors are the columns.
Orders == { order \in [1..3 -> 1..3] : \A i, j \in 1..3 : i # j => order[i] # order[j] }
Signs == [1..3 -> {1, 0 - 1}]
Eigh(diagonal) ==
    { [eigenvalues |-> [j \in 1..3 |-> diagonal[order[j]]],
       eigenvectors |-> [j \in 1..3 |-> Scaled(sign[j], Unit(order[j]))]] :
        order \in { o \in Orders : diagonal[o[1]] <= diagonal[o[2]]
                                   /\ diagonal[o[2]] <= diagonal[o[3]] },
        sign \in Signs }

\* np.linalg.norm of a vector whose length is a whole number.
Norm(v) == CHOOSE n \in 0..3 : n * n = Dot(v, v)

\* np.argmax(np.abs(col)): the first of the largest components.
Abs(x) == IF x < 0 THEN 0 - x ELSE x
ArgMaxAbs(col) ==
    CHOOSE i \in 1..3 : /\ \A k \in 1..3 : Abs(col[i]) >= Abs(col[k])
                        /\ \A k \in 1..(i - 1) : Abs(col[k]) < Abs(col[i])

\* The sign convention: the largest component of a column is positive.
Positive(col) == IF col[ArgMaxAbs(col)] < 0 THEN Scaled(0 - 1, col) ELSE col

\* np.linalg.det of the matrix of three columns.
Det(columns) == Dot(columns[1], Cross(columns[2], columns[3]))

\* _canonicalize_eigenvectors 157-174 / 175-192: the first of the two columns
\* of a degenerate pair, from the projection of the reference direction (the
\* x direction, or the y direction when x projects to nothing) off the
\* unique axis. The lengths are whole numbers here, so the division by n
\* leaves the projection as it is.
Projection(ref, unique_axis) == Minus(ref, Scaled(Dot(ref, unique_axis), unique_axis))
PlaneVector(unique_axis) ==
    IF Norm(Projection(Unit(1), unique_axis)) = 0
    THEN Positive(Projection(Unit(2), unique_axis))
    ELSE Positive(Projection(Unit(1), unique_axis))

\* _canonicalize_eigenvectors: the eigenvector matrix made deterministic.
_canonicalize_eigenvectors(eigenvalues, eigenvectors) ==
    IF IsClose(eigenvalues[1], eigenvalues[2], Tolerance)
       /\ IsClose(eigenvalues[2], eigenvalues[3], Tolerance)
    THEN Identity3
    ELSE IF IsClose(eigenvalues[1], eigenvalues[2], Tolerance)
    THEN << PlaneVector(eigenvectors[3]),
            Cross(eigenvectors[3], PlaneVector(eigenvectors[3])),
            eigenvectors[3] >>
    ELSE IF IsClose(eigenvalues[2], eigenvalues[3], Tolerance)
    THEN << eigenvectors[1],
            PlaneVector(eigenvectors[1]),
            Cross(eigenvectors[1], PlaneVector(eigenvectors[1])) >>
    ELSE IF Det([j \in 1..3 |-> Positive(eigenvectors[j])]) < 0
    THEN << Positive(eigenvectors[1]), Positive(eigenvectors[2]),
            Scaled(0 - 1, Positive(eigenvectors[3])) >>
    ELSE [j \in 1..3 |-> Positive(eigenvectors[j])]

\* extract_inertia: the orientation (the rotation matrix handed to Gf, by its
\* columns) and the diagonal inertia.
extract_inertia(eigen) ==
    [orientation |-> _canonicalize_eigenvectors(eigen.eigenvalues, eigen.eigenvectors),
     diag_inertia |-> eigen.eigenvalues]

NoInertia == <<0, 0, 0>>
NoExtraction == [orientation |-> Identity3, diag_inertia |-> <<0, 0, 0>>]
\* ---------------------------------------------------------------- state
VARIABLES
    pc,            \* where the run stands
    tree,          \* the source document read so far (root node with lines)
    element,       \* the root element while its children are being parsed
    root_element,  \* URDFParser.root_element
    undefined_elements,  \* what get_undefined_elements returned
    error,         \* the error the run ended with, or NoErr
    link_hierarchy,    \* data.link_hierarchy
    stack,             \* the calls of convert_link in progress
    prims,             \* the link prims authored so far
    references,        \* data.references[Tokens.Physics]: link name -> prim
    name_cache,        \* data.name_cache: the names issued, per parent prim
    joint_safe_names,  \* physics_joints: the prim names of the declared joints
    next_joint,        \* physics_joints: the declared joint converted next
    joints_out,        \* the joint prims authored so far, by prim name
    physics_joints_dict,   \* physics_joints: joint name -> the joint's prim
    mimic_joints_names,    \* physics_joints: the joints that mimic another
    next_mimic,            \* physics_joints: the mimicking joint handled next
    mimics,            \* the mimic relations authored so far, by prim name
    name_requests,     \* the requests to data.name_cache so far, in order
    scopes,            \* the scopes authored for unrecognized elements
    asset,             \* the default prim of the asset stage
    diagnostics,       \* the warnings emitted so far
    axis,              \* define_physics_planar_joint: the axis it is called with
    planar_joint,      \* define_physics_planar_joint: the joint it defined
    inertia,           \* extract_inertia: the diagonal of the tensor it is called with
    mass_api           \* extract_inertia: the principal axes and diagonal inertia

parse_vars == <<tree, element, root_element, undefined_elements>>
mimic_vars == <<physics_joints_dict, mimic_joints_names, next_mimic, mimics>>
authoring_vars == <<name_requests, scopes, asset, diagnostics>>
conv_vars == <<link_hierarchy, stack, prims, references, name_cache,
               joint_safe_names, next_joint, joints_out, mimic_vars, authoring_vars>>
unit_vars == <<axis, planar_joint, inertia, mass_api>>
vars == <<pc, error, parse_vars, conv_vars, unit_vars>>

\* No function is being run on its own.
Idle ==
    /\ axis = NoAxis
    /\ planar_joint = NoPlanarJoint
    /\ inertia = NoInertia
    /\ mass_api = NoExtraction

\* ConversionData before convert_links has run.
InitConversion ==
    /\ link_hierarchy = NoHierarchy
    /\ stack = << >>
    /\ prims = {}
    /\ references = EmptyMap
    /\ name_cache = {}
    /\ joint_safe_names = << >>
    /\ next_joint = 0
    /\ joints_out = EmptyMap
    /\ physics_joints_dict = EmptyMap
    /\ mimic_joints_names = << >>
    /\ next_mimic = 1
    /\ mimics = EmptyMap
    /\ name_requests = << >>
    /\ scopes = {}
    /\ diagnostics = {}

\* URDFParser.__init__
InitParse ==
    /\ Idle
    /\ pc = "start"
    /\ tree = Node(NoTag, EmptyMap, <<>>)
    /\ element = NullElement
    /\ root_element = NullElement
    /\ undefined_elements = << >>
    /\ error = NoErr
    /\ asset = NoAsset
    /\ InitConversion

Fail(err) ==
    /\ pc' = "failed"
    /\ error' = err

\* parse(): the root node is opened (182-414 on tree_root).
ParseRoot ==
    /\ UNCHANGED unit_vars
    /\ UNCHANGED <<conv_vars, undefined_elements>>
    /\ pc = "start"
    /\ \E shape \in RootShapes : \E o \in { OpenNode(Numbered(shape, 1), NullElement) } :
             /\ tree' = Numbered(shape, 1)
             /\ IF o.err # NoErr
                THEN Fail(o.err) /\ UNCHANGED <<element, root_element>>
                ELSE /\ pc' = "children"
                     /\ element' = o.el
                     /\ UNCHANGED <<root_element, error>>

\* parse(): one more child of the root is parsed (416-418 on tree_root).
ParseChild ==
    /\ UNCHANGED unit_vars
    /\ UNCHANGED <<conv_vars, undefined_elements>>
    /\ pc = "children"
    /\ Len(tree.children) < MaxChildren
    /\ \E shape \in ChildShapes :
         \E r \in { ParseNode(Numbered(shape, Size(tree) + 1), element) } :
             /\ tree' = [tree EXCEPT !.children =
                                      Append(@, Numbered(shape, Size(tree) + 1))]
             /\ IF r.err # NoErr
                THEN Fail(r.err) /\ UNCHANGED <<element, root_element>>
                ELSE /\ element' = r.prev
                     /\ UNCHANGED <<pc, root_element, error>>

\* parse(): the root has no more children; it is closed and becomes
\* self.root_element (line 90).
EndOfDocument ==
    /\ UNCHANGED unit_vars
    /\ UNCHANGED <<conv_vars, undefined_elements>>
    /\ pc = "children"
    /\ \E c \in { CloseNode(tree, element, NullElement) } :
           IF c.err # NoErr
           THEN Fail(c.err) /\ UNCHANGED <<tree, element, root_element>>
           ELSE /\ root_element' = c.el
                /\ pc' = "validate"
                /\ UNCHANGED <<tree, element, error>>

\* parse(): self._validate() (line 93).
ValidateDocument ==
    /\ UNCHANGED unit_vars
    /\ UNCHANGED <<conv_vars, undefined_elements>>
    /\ pc = "validate"
    /\ \E v \in { Validate(root_element) } :
           IF v # NoErr
           THEN Fail(v) /\ UNCHANGED <<tree, element, root_element>>
           ELSE /\ pc' = "parsed"
                /\ UNCHANGED <<tree, element, root_element, error>>

\* get_undefined_elements() on the parsed document.
GetUndefinedElements ==
    /\ UNCHANGED unit_vars
    /\ pc = "parsed"
    /\ undefined_elements' = get_undefined_elements(root_element)
    /\ pc' = "collected"
    /\ UNCHANGED <<error, tree, element, root_element, conv_vars>>

NextParse ==
    \/ ParseRoot
    \/ ParseChild
    \/ EndOfDocument
    \/ ValidateDocument
    \/ GetUndefinedElements

SpecParse == InitParse /\ [][NextParse]_vars



\* ---------------------------------------------------------------- converting
\* A parsed and validated document is handed to the converter.
InitConvert ==
    /\ Idle
    /\ \E doc \in ConvDocs : \E r \in { ParseNode(Numbered(doc, 1), NullElement) } :
             /\ r.err = NoErr
             /\ Validate(r.el) = NoErr
             /\ tree = Numbered(doc, 1)
             /\ element = r.el
             /\ root_element = r.el
             /\ undefined_elements = get_undefined_elements(r.el)
             /\ asset = AssetPrim(r.el.fields["name"])
    /\ pc = "build"
    /\ error = NoErr
    /\ InitConversion

Crash(err) ==
    /\ pc' = "crashed"
    /\ error' = err

\* The link hierarchy is built from the parsed joints; without a unique
\* root the conversion ends here.
BuildHierarchy ==
    /\ UNCHANGED unit_vars
    /\ pc = "build"
    /\ \E b \in { BuildLinkHierarchy(root_element) } :
           IF b.err # NoErr
           THEN Fail(b.err) /\ UNCHANGED <<parse_vars, conv_vars>>
           ELSE /\ link_hierarchy' = b.hierarchy
                /\ stack' = << Frame(b.hierarchy.root, GeometryScope, FALSE) >>
                /\ pc' = "links"
                /\ UNCHANGED <<error, parse_vars, prims, references, name_cache,
                               joint_safe_names, next_joint, joints_out, mimic_vars,
                               authoring_vars>>

\* convert_link 45-76: the prim of the link is named, defined, registered
\* and marked.
ConvertLink ==
    /\ UNCHANGED unit_vars
    /\ pc = "links"
    /\ stack # << >>
    /\ LET depth == Len(stack)
           frame == stack[depth]
           link == LinkNamed(root_element, frame.link)
           link_safe_name == getPrimName(name_cache, frame.parent, frame.link)
           path == Append(frame.parent, link_safe_name)
           marked == AppliesArticulationRoot(link, link_hierarchy,
                                             frame.having_articulation_root)
       IN  /\ frame.next = 0
           /\ \E a \in { LinkAuthoring(link, frame.parent, link_safe_name,
                                        undefined_elements,
                                        Authoring(name_cache, name_requests, scopes, {})) } :
                 /\ name_cache' = a.cache
                 /\ name_requests' = a.issued
                 /\ scopes' = a.scopes
           /\ prims' = prims \cup
                 { [path |-> path, link |-> frame.link,
                    display_name |-> DisplayName(frame.link, link_safe_name),
                    rigid_body |-> AppliesRigidBody(link, link_hierarchy),
                    articulation_root |-> marked] }
           /\ references' = (frame.link :> path) @@ references
           /\ stack' = [stack EXCEPT ![depth] =
                 [frame EXCEPT !.path = path, !.next = 1,
                               !.having_articulation_root = @ \/ marked]]
    /\ UNCHANGED <<pc, error, parse_vars, link_hierarchy, joint_safe_names,
                   next_joint, joints_out, mimic_vars, asset, diagnostics>>

\* convert_link 100-102: the next child is converted under the link's prim,
\* with the flag as it stands in this call. The interpreter ends a recursion
\* that runs too deep.
ConvertChild ==
    /\ UNCHANGED unit_vars
    /\ pc = "links"
    /\ stack # << >>
    /\ LET depth == Len(stack)
           frame == stack[depth]
           children == get_link_children(link_hierarchy, root_element, frame.link)
       IN  /\ frame.next \in 1..Len(children)
           /\ IF depth >= MaxDepth
              THEN Crash(BareError("RecursionError", "maximum recursion depth exceeded"))
                   /\ UNCHANGED stack
              ELSE /\ stack' = Append([stack EXCEPT ![depth].next = @ + 1],
                                      Frame(children[frame.next], frame.path,
                                            frame.having_articulation_root))
                   /\ UNCHANGED <<pc, error>>
    /\ UNCHANGED <<parse_vars, link_hierarchy, prims, references, name_cache,
                   joint_safe_names, next_joint, joints_out, mimic_vars,
                               authoring_vars>>

\* convert_link 104: the call returns; convert_links goes on to the joints
\* once the call on the root has returned.
ReturnLink ==
    /\ UNCHANGED unit_vars
    /\ pc = "links"
    /\ stack # << >>
    /\ LET depth == Len(stack)
           frame == stack[depth]
           children == get_link_children(link_hierarchy, root_element, frame.link)
       IN  /\ frame.next > Len(children)
           /\ stack' = SubSeq(stack, 1, depth - 1)
           /\ pc' = IF depth = 1 THEN "joints" ELSE "links"
    /\ UNCHANGED <<error, parse_vars, link_hierarchy, prims, references,
                   name_cache, joint_safe_names, next_joint, joints_out, mimic_vars,
                               authoring_vars>>

\* physics_joints 261-279: the synthetic joint of a root with content, then
\* the prim names of all declared joints.
RootJoint ==
    /\ UNCHANGED unit_vars
    /\ pc = "joints"
    /\ LET root_link == LinkNamed(root_element, link_hierarchy.root)
           is_ghost_link == HasNoContent(root_link)
           joints == root_element.joints
           joint_names == [k \in 1..Len(joints) |-> joints[k].fields["name"]]
       IN  \E root_joint \in { RootJointNaming(name_cache) } :
           \E issued \in { getPrimNames(IF is_ghost_link THEN name_cache
                                         ELSE root_joint.cache,
                                         PhysicsScope, joint_names) } :
             /\ joints_out' =
                   IF is_ghost_link THEN joints_out
                   ELSE (root_joint.name :>
                           [name |-> RootJointName,
                            display_name |-> DisplayName(RootJointName, root_joint.name),
                            type |-> "fixed", declared |-> 0,
                            body0 |-> DefaultPrim,
                            body1 |-> references[root_link.fields["name"]]]) @@ joints_out
             /\ name_cache' = issued.cache
             /\ joint_safe_names' = issued.names
             /\ name_requests' =
                   name_requests
                   \o (IF is_ghost_link THEN << >>
                       ELSE << Request("root joint", PhysicsScope, RootJointName,
                                       root_joint.name) >>)
                   \o Requests("joint", PhysicsScope, joint_names, issued.names)
    /\ next_joint' = 1
    /\ pc' = "declared"
    /\ UNCHANGED <<error, parse_vars, link_hierarchy, stack, prims, references,
                   mimic_vars, scopes, asset, diagnostics>>

\* physics_joints 286-333: one declared joint. A link that was never
\* authored has no entry in the references (KeyError). A joint that got a
\* prim is entered in physics_joints_dict, and in mimic_joints_names when it
\* mimics another.
DeclaredJoint ==
    /\ UNCHANGED unit_vars
    /\ pc = "declared"
    /\ next_joint \in 1..Len(root_element.joints)
    /\ LET joint == root_element.joints[next_joint]
           joint_safe_name == joint_safe_names[next_joint]
           is_ghost_link == HasNoContent(LinkNamed(root_element, link_hierarchy.root))
       IN  IF LookupFails(references, joint, is_ghost_link)
           THEN Crash(BareError("KeyError", "references"))
                /\ UNCHANGED <<next_joint, joints_out, physics_joints_dict,
                               mimic_joints_names>>
           ELSE /\ joints_out' =
                      IF ~DefinesPhysicsJoint(joint) THEN joints_out
                      ELSE (joint_safe_name :>
                              [name |-> joint.fields["name"],
                               display_name |-> DisplayName(joint.fields["name"],
                                                            joint_safe_name),
                               type |-> joint.fields["type"], declared |-> next_joint,
                               body0 |-> Body0(references, joint, is_ghost_link),
                               body1 |-> references[ChildLink(joint)]]) @@ joints_out
                /\ physics_joints_dict' =
                      IF ~DefinesPhysicsJoint(joint) THEN physics_joints_dict
                      ELSE (joint.fields["name"] :> joint_safe_name) @@ physics_joints_dict
                /\ mimic_joints_names' =
                      IF DefinesPhysicsJoint(joint) /\ HasMimic(joint)
                      THEN Append(mimic_joints_names, joint.fields["name"])
                      ELSE mimic_joints_names
                /\ next_joint' = next_joint + 1
                /\ UNCHANGED <<pc, error>>
    /\ UNCHANGED <<parse_vars, link_hierarchy, stack, prims, references,
                   name_cache, joint_safe_names, next_mimic, mimics, authoring_vars>>

\* physics_joints 336-347: the relation of one mimicking joint, once the
\* first loop has ended. A referenced joint that has no prim has no entry in
\* physics_joints_dict (KeyError).
MimicJoint ==
    /\ UNCHANGED unit_vars
    /\ pc = "declared"
    /\ MimicPassReady(next_joint, root_element.joints)
    /\ next_mimic \in 1..Len(mimic_joints_names)
    /\ LET mimic_joint_name == mimic_joints_names[next_mimic]
           physics_joint_prim == physics_joints_dict[mimic_joint_name]
           joint == JointNamed(root_element.joints, mimic_joint_name)
           referenced == joint.slots["mimic"].fields["joint"]
       IN  IF referenced \notin DOMAIN physics_joints_dict
           THEN Crash(BareError("KeyError", "physics_joints_dict"))
                /\ UNCHANGED <<next_mimic, mimics>>
           ELSE /\ mimics' = (physics_joint_prim :>
                                 set_physics_mimic_joint(joint,
                                     physics_joints_dict[referenced])) @@ mimics
                /\ next_mimic' = next_mimic + 1
                /\ UNCHANGED <<pc, error>>
    /\ UNCHANGED <<parse_vars, link_hierarchy, stack, prims, references,
                   name_cache, joint_safe_names, next_joint, joints_out,
                   physics_joints_dict, mimic_joints_names, authoring_vars>>

\* physics_joints returns after the last mimicking joint.
JointsDone ==
    /\ UNCHANGED unit_vars
    /\ pc = "declared"
    /\ next_joint > Len(root_element.joints)
    /\ next_mimic > Len(mimic_joints_names)
    /\ pc' = "done"
    /\ UNCHANGED <<error, parse_vars, conv_vars>>

\* convert() after convert_links: the unrecognized content that no link,
\* joint or material owns is authored under the catch-all scope, the known
\* limitations are warned about, and the call returns.
Complete ==
    /\ UNCHANGED unit_vars
    /\ pc = "done"
    /\ \E a \in { convert_undefined(undefined_elements,
                                     Authoring(name_cache, name_requests, scopes, {})) } :
          /\ name_cache' = a.cache
          /\ name_requests' = a.issued
          /\ scopes' = a.scopes
    /\ diagnostics' = diagnostics \cup warn(root_element)
    /\ pc' = "returned"
    /\ UNCHANGED <<error, parse_vars, link_hierarchy, stack, prims, references,
                   joint_safe_names, next_joint, joints_out, mimic_vars, asset>>

Next ==
    \/ BuildHierarchy
    \/ ConvertLink
    \/ ConvertChild
    \/ ReturnLink
    \/ RootJoint
    \/ DeclaredJoint
    \/ MimicJoint
    \/ JointsDone
    \/ Complete

Spec == InitConvert /\ [][Next]_vars

\* ---------------------------------------------------------------- calling convert
\* Converter.convert is called with the path of a document.
InitCall ==
    /\ Idle
    /\ pc = "convert"
    /\ \E doc \in ConvDocs \cup UnparsableDocs : tree = Numbered(doc, 1)
    /\ element = NullElement
    /\ root_element = NullElement
    /\ undefined_elements = << >>
    /\ error = NoErr
    /\ asset = NoAsset
    /\ InitConversion

\* Converter.convert 49-98: the input must be a file and the output no file;
\* the document is parsed and validated; the asset stage gets its default
\* prim.
Convert ==
    /\ UNCHANGED unit_vars
    /\ pc = "convert"
    /\ \E input_file \in InputFiles : \E output_dir \in OutputDirs :
         IF input_file # "file"
         THEN /\ Fail(BareError("ValueError", "Input file is not a readable file"))
              /\ UNCHANGED <<parse_vars, conv_vars>>
         ELSE IF output_dir = "file"
         THEN /\ Fail(BareError("ValueError", "Output directory is not a directory"))
              /\ UNCHANGED <<parse_vars, conv_vars>>
         ELSE \E r \in { ParseNode(tree, NullElement) } :
              \E raised \in { IF r.err # NoErr THEN r.err ELSE Validate(r.el) } :
                IF raised # NoErr
                THEN /\ Fail(ErrorParsingXML(raised))
                     /\ UNCHANGED <<parse_vars, conv_vars>>
                ELSE /\ pc' = "build"
                     /\ element' = r.el
                     /\ root_element' = r.el
                     /\ undefined_elements' = get_undefined_elements(r.el)
                     /\ asset' = AssetPrim(r.el.fields["name"])
                     /\ UNCHANGED <<error, tree, link_hierarchy, stack, prims,
                                    references, name_cache, joint_safe_names,
                                    next_joint, joints_out, mimic_vars,
                                    name_requests, scopes, diagnostics>>

NextCall ==
    \/ Convert
    \/ BuildHierarchy
    \/ ConvertLink
    \/ ConvertChild
    \/ ReturnLink
    \/ RootJoint
    \/ DeclaredJoint
    \/ MimicJoint
    \/ JointsDone
    \/ Complete

SpecConvert == InitCall /\ [][NextCall]_vars


\* ---------------------------------------------------------------- functions on their own
\* Nothing is parsed or converted while a function is run on its own.
NoRun ==
    /\ tree = Node(NoTag, EmptyMap, <<>>)
    /\ element = NullElement
    /\ root_element = NullElement
    /\ undefined_elements = << >>
    /\ error = NoErr
    /\ asset = NoAsset
    /\ InitConversion

\* define_physics_planar_joint is about to be called with an axis.
InitPlanar ==
    /\ pc = "planar joint"
    /\ axis \in Axes
    /\ planar_joint = NoPlanarJoint
    /\ inertia = NoInertia
    /\ mass_api = NoExtraction
    /\ NoRun

\* define_physics_planar_joint
DefinePlanarJoint ==
    /\ pc = "planar joint"
    /\ planar_joint' = define_physics_planar_joint(axis, _get_axis_alignment(axis))
    /\ pc' = "planar joint defined"
    /\ UNCHANGED <<axis, inertia, mass_api, error, parse_vars, conv_vars>>

SpecPlanar == InitPlanar /\ [][DefinePlanarJoint]_vars

\* extract_inertia is about to be called with a diagonal inertia tensor.
InitInertia ==
    /\ pc = "inertia"
    /\ inertia \in Moments \X Moments \X Moments
    /\ mass_api = NoExtraction
    /\ axis = NoAxis
    /\ planar_joint = NoPlanarJoint
    /\ NoRun

\* extract_inertia 204-253 (apply_inertial 119-121 stores what it returns).
ExtractInertia ==
    /\ pc = "inertia"
    /\ \E eigen \in Eigh(inertia) : mass_api' = extract_inertia(eigen)
    /\ pc' = "inertia extracted"
    /\ UNCHANGED <<inertia, axis, planar_joint, error, parse_vars, conv_vars>>

SpecInertia == InitInertia /\ [][ExtractInertia]_vars

\* ---------------------------------------------------------------- parse() as one call
\* The documents parse() is called on whole: a root of any tag over up to
\* MaxChildren children.
RootTags == {"robot", "link", "joint", "gazebo", "custom", "urdf"}
DocumentChildren ==
    { Link("A", <<>>), Link("B", <<>>),
      Joint("J1", "fixed", <<Parent("A"), Child("B")>>),
      Node("note", "text" :> "t", <<>>) }
Documents ==
    { Node(tag, "name" :> "r", kids) :
        tag \in RootTags,
        kids \in UNION { [1..n -> DocumentChildren] : n \in 0..MaxChildren } }

\* URDFParser.parse is about to be called on a document.
InitDocument ==
    /\ pc = "parse"
    /\ tree \in { Numbered(doc, 1) : doc \in Documents }
    /\ element = NullElement
    /\ root_element = NullElement
    /\ undefined_elements = << >>
    /\ error = NoErr
    /\ asset = NoAsset
    /\ InitConversion
    /\ Idle

\* URDFParser.parse 89-93: the elements are read, the result becomes
\* self.root_element, and the document is validated.
ParseDocument ==
    /\ pc = "parse"
    /\ \E r \in { ParseNode(tree, NullElement) } :
         IF r.err # NoErr
         THEN Fail(r.err) /\ UNCHANGED <<element, root_element>>
         ELSE /\ element' = r.el
              /\ root_element' = r.el
              /\ \E v \in { Validate(r.el) } :
                   IF v # NoErr THEN Fail(v)
                   ELSE pc' = "parsed" /\ UNCHANGED error
    /\ UNCHANGED <<tree, undefined_elements, conv_vars, unit_vars>>

SpecDocument == InitDocument /\ [][ParseDocument]_vars
\* ================================================================ claims
\* ---------------------------------------------------------------- helpers
\* The robot-level children of the source document with this tag.
SourceChildren(tag) ==
    { k \in 1..Len(tree.children) : tree.children[k].tag = tag }

\* The k-th child repeats the name of an earlier sibling with the same tag.
RepeatsEarlierName(k) ==
    LET node == tree.children[k]
    IN  /\ node.tag \in {"link", "joint", "material"}
        /\ HasName(node)
        /\ \E j \in 1..(k - 1) :
             /\ tree.children[j].tag = node.tag
             /\ HasName(tree.children[j])
             /\ tree.children[j].attrib["name"] = node.attrib["name"]

\* The node parses without error as the only child of an empty robot: it has
\* no defect of its own.
SoundAlone(node) ==
    ParseNode(node, NewElement("ElementRobot", "robot", <<"robot">>, 1)).err = NoErr

DuplicateKind(tag) ==
    CASE tag = "link" -> "Link name already exists"
      [] tag = "joint" -> "Joint name already exists"
      [] OTHER -> "Material name already exists"

NoTwoEqualNames(list) ==
    \A i, j \in 1..Len(list) : i # j => list[i].fields["name"] # list[j].fields["name"]

\* C1: a link, joint or material directly under the robot that repeats the
\* name of an earlier sibling of its kind makes the parse fail, and when the
\* repeating element is itself sound the error names the repeated name and
\* the line of the later element; no robot being built or returned holds two
\* links, two joints or two materials of the same name.
C1_DuplicateNamesFail ==
    /\ \A e \in {element, root_element} :
         NoTwoEqualNames(e.links) /\ NoTwoEqualNames(e.joints)
         /\ NoTwoEqualNames(e.materials)
    /\ \A k \in 1..Len(tree.children) :
         RepeatsEarlierName(k) =>
           /\ pc = "failed"
           /\ SoundAlone(tree.children[k]) =>
                error = [kind |-> DuplicateKind(tree.children[k].tag),
                         tag |-> tree.children[k].tag,
                         line |-> tree.children[k].line,
                         detail |-> tree.children[k].attrib["name"]]

C1_Witness ==
    /\ pc = "failed"
    /\ Len(tree.children) = 3
    /\ RepeatsEarlierName(3)
    /\ SoundAlone(tree.children[3])
    /\ tree.children[3].tag = "joint"
    /\ error.kind = "Joint name already exists"
    /\ error.line = tree.children[3].line

\* A material reference given by name only: no color and no texture child.
NameOnlyMaterial(node) ==
    /\ node.tag = "material"
    /\ HasName(node)
    /\ \A i \in 1..Len(node.children) : node.children[i].tag \notin {"color", "texture"}

\* The names of the robot-level materials / links the source declares.
DeclaredNames(tag) == { tree.children[k].attrib["name"] : k \in SourceChildren(tag) }

\* Every visual of every link of the source refers only to declared materials.
SourceMaterialsResolve ==
    \A k \in SourceChildren("link") :
      LET link == tree.children[k]
      IN  \A v \in 1..Len(link.children) :
            link.children[v].tag = "visual" =>
              \A m \in 1..Len(link.children[v].children) :
                NameOnlyMaterial(link.children[v].children[m]) =>
                  link.children[v].children[m].attrib["name"] \in DeclaredNames("material")

\* Every joint of the parsed robot has a parent and a child naming declared links.
ParsedJointsResolve ==
    \A i \in 1..Len(root_element.joints) :
      LET joint == root_element.joints[i]
      IN  /\ HasSlot(joint, "parent") /\ HasSlot(joint, "child")
          /\ joint.slots["parent"].fields["link"] \in NamesOf(root_element.links)
          /\ joint.slots["child"].fields["link"] \in NamesOf(root_element.links)

\* C2: a successfully parsed document has no dangling reference: every joint
\* has a parent and a child naming declared links, and every visual's
\* name-only material reference names a declared robot-level material.
C2_NoDanglingReference ==
    pc = "parsed" => ParsedJointsResolve /\ SourceMaterialsResolve

\* The lines of the nodes strictly beneath a node.
LinesBeneath(node) == (node.line + 1)..(node.line + Size(node) - 1)

\* The unrecognized elements of the source that have a recognized parent: a
\* robot-level child, or a child of one, whose tag is not reserved.
RECURSIVE UnrecognizedTops(_)
UnrecognizedTops(node) ==
    UNION { IF ~check_element_name(node.children[i].tag)
            THEN {node.children[i]}
            ELSE UnrecognizedTops(node.children[i]) : i \in 1..Len(node.children) }

\* Every node beneath an unrecognized source node u is stored, at the same
\* place, as an undefined element that keeps the node's attributes verbatim.
RECURSIVE StoredOpaquely(_, _)
StoredOpaquely(node, stored) ==
    /\ stored.cls = "ElementUndefined"
    /\ stored.undefined_attributes = node.attrib
    /\ Len(stored.undefined_elements) = Len(node.children)
    /\ \A i \in 1..Len(node.children) :
         StoredOpaquely(node.children[i], stored.undefined_elements[i])

\* The elements of the parsed document, at any depth.
RECURSIVE AllElements(_)
AllElements(e) ==
    {e}
    \cup UNION { AllElements(e.slots[s]) : s \in DOMAIN e.slots }
    \cup UNION { AllElements(e.undefined_elements[i]) : i \in 1..Len(e.undefined_elements) }
    \cup UNION { AllElements(e.links[i]) : i \in 1..Len(e.links) }
    \cup UNION { AllElements(e.joints[i]) : i \in 1..Len(e.joints) }
    \cup UNION { AllElements(e.materials[i]) : i \in 1..Len(e.materials) }
    \cup UNION { AllElements(e.transmissions[i]) : i \in 1..Len(e.transmissions) }

TagPairs ==
    { <<tag_name, prev_element_tag>> : tag_name \in reserved_element_names,
                                       prev_element_tag \in reserved_element_names }

ResolvedPairs == { pair \in TagPairs : MatchingClasses(pair[1], pair[2]) # {} }

Resolves(tag_name, prev_element_tag) ==
    IF check_element_name(prev_element_tag)
    THEN <<tag_name, prev_element_tag>> \in ResolvedPairs
    ELSE MatchingClasses(tag_name, prev_element_tag) # {}


\* The lines of the reserved-tag nodes that sit under a recognized parent whose
\* tag the registry does not allow them under (beneath an unrecognized
\* element nothing is resolved, so nothing there counts).
RECURSIVE MisplacedLines(_, _)
MisplacedLines(node, parent_tag) ==
    IF ~check_element_name(node.tag) THEN {}
    ELSE IF ~Resolves(node.tag, parent_tag)
    THEN {node.line}
    ELSE UNION { MisplacedLines(node.children[i], node.tag) : i \in 1..Len(node.children) }

Misplaced ==
    UNION { MisplacedLines(tree.children[k], "robot") : k \in 1..Len(tree.children) }

\* The tag of the source node at a line.
RECURSIVE TagAt(_, _)
TagAt(node, line) ==
    IF node.line = line THEN node.tag
    ELSE LET i == CHOOSE i \in 1..Len(node.children) :
                    line \in node.children[i].line..(node.children[i].line + Size(node.children[i]) - 1)
         IN  TagAt(node.children[i], line)

SourceJoints == SelectSeq(tree.children, LAMBDA node : node.tag = "joint")
SourceLinks == SelectSeq(tree.children, LAMBDA node : node.tag = "link")

\* The link a joint of the source names as its parent / child.
EndOf(joint, tag) ==
    LET ends == SelectSeq(joint.children, LAMBDA node : node.tag = tag)
    IN  ends[Len(ends)].attrib["link"]

SourceLinkNames == { SourceLinks[i].attrib["name"] : i \in 1..Len(SourceLinks) }

\* The links one joint of the source leads to from the links of S.
SourceSuccessors(S) ==
    { EndOf(SourceJoints[k], "child") :
        k \in { j \in 1..Len(SourceJoints) : EndOf(SourceJoints[j], "parent") \in S } }

\* The links reached from S along at least one and at most n joints.
RECURSIVE ReachedFrom(_, _)
ReachedFrom(S, n) ==
    IF n = 0 THEN {}
    ELSE SourceSuccessors(S) \cup ReachedFrom(SourceSuccessors(S), n - 1)

\* The joints of the source, read as parent-to-child edges, contain a cycle.
JointsFormCycle ==
    \E name \in SourceLinkNames : name \in ReachedFrom({name}, Len(SourceJoints))

\* The links of the source that no joint names as its child.
RootEligible ==
    { name \in SourceLinkNames :
        \A k \in 1..Len(SourceJoints) : EndOf(SourceJoints[k], "child") # name }

\* The source gives the link no inertial, no visual and no collision entry.
SourceLinkIsBare(name) ==
    \A i \in 1..Len(SourceLinks) :
      SourceLinks[i].attrib["name"] = name =>
        \A c \in 1..Len(SourceLinks[i].children) :
          SourceLinks[i].children[c].tag \notin {"inertial", "visual", "collision"}

HierarchyBuilt == link_hierarchy # NoHierarchy
RootIsGhost == HierarchyBuilt /\ SourceLinkIsBare(link_hierarchy.root)

\* The prims authored for a link, and the synthetic / declared joint prims.
PrimsOf(name) == { p.path : p \in { q \in prims : q.link = name } }
SyntheticJoints == { n \in DOMAIN joints_out : joints_out[n].declared = 0 }
JointsFor(k) == { n \in DOMAIN joints_out : joints_out[n].declared = k }

\* C3: whenever the joints of the document contain a cycle, the conversion
\* fails with the loop error at the hierarchy, before any hierarchy exists
\* and before any link is traversed or authored.
C3_CycleIsRejected ==
    (JointsFormCycle /\ pc # "build") =>
        /\ pc = "failed"
        /\ error = BareError("ValueError", "Closed loop articulations are not supported")
        /\ ~HierarchyBuilt
        /\ prims = {}
        /\ stack = << >>

\* C4: once the hierarchy step has run, either exactly one link is
\* root-eligible, the hierarchy exists with that link as its root and the
\* traversal starts at it; or the step has failed with the structural error,
\* no hierarchy exists and no link was picked or authored.
C4_UniqueRootOrFailure ==
    pc # "build" =>
        IF Cardinality(RootEligible) = 1
        THEN /\ pc # "failed"
             /\ link_hierarchy.root \in RootEligible
             /\ \A p \in prims : Len(p.path) = 2 => p.link \in RootEligible
        ELSE /\ pc = "failed"
             /\ error.kind = "ValueError"
             /\ ~HierarchyBuilt
             /\ prims = {}
             /\ stack = << >>

\* Two links are root-eligible and the conversion has failed.
C4_Witness ==
    /\ pc = "failed"
    /\ Cardinality(RootEligible) = 2
    /\ Len(SourceJoints) = 1

\* C5: while the root of the hierarchy is a ghost, the prim of the root has
\* neither the rigid-body nor the articulation-root marking, and no
\* synthetic world-to-root joint exists.
C5_GhostRootUnmarked ==
    RootIsGhost =>
        /\ \A p \in prims :
             p.link = link_hierarchy.root => ~p.rigid_body /\ ~p.articulation_root
        /\ SyntheticJoints = {}

\* A ghost root with a child has been converted, joints included.
C5_Witness ==
    /\ pc = "done"
    /\ RootIsGhost
    /\ PrimsOf(link_hierarchy.root) # {}
    /\ \E k \in 1..Len(SourceJoints) : JointsFor(k) # {}

\* C6: after a conversion whose root is not a ghost, or is a ghost with a
\* descendant, exactly one link carries the articulation-root marking, and
\* it is the root when the root is not a ghost.
C6_OneArticulationRoot ==
    (pc = "done" /\ (~RootIsGhost \/ Len(get_link_children(link_hierarchy, root_element,
                                                         link_hierarchy.root)) > 0)) =>
        LET marked == { p.link : p \in { q \in prims : q.articulation_root } }
        IN  /\ Cardinality(marked) = 1
            /\ ~RootIsGhost => marked = {link_hierarchy.root}

\* C7: once physics_joints has dealt with the root joint of a root that is
\* not a ghost, the joint prims hold exactly one synthetic fixed joint from
\* the world to the root; every declared joint dealt with so far has its own
\* prim beside it (every kind but floating, which has none), still carrying
\* its source name and kind; and a conversion that completes has dealt with
\* every declared joint.
C7_SyntheticJointBesideDeclared ==
    (next_joint >= 1 /\ ~RootIsGhost) =>
        /\ Cardinality(SyntheticJoints) = 1
        /\ \A n \in SyntheticJoints :
             /\ joints_out[n].type = "fixed"
             /\ joints_out[n].body0 = DefaultPrim
             /\ joints_out[n].body1 \in PrimsOf(link_hierarchy.root)
        /\ pc = "done" => next_joint = Len(SourceJoints) + 1
        /\ \A k \in 1..Len(SourceJoints) :
             IF k >= next_joint \/ SourceJoints[k].attrib["type"] = "floating"
             THEN JointsFor(k) = {}
             ELSE /\ Cardinality(JointsFor(k)) = 1
                  /\ \A n \in JointsFor(k) :
                       /\ joints_out[n].name = SourceJoints[k].attrib["name"]
                       /\ joints_out[n].type = SourceJoints[k].attrib["type"]
                       /\ \/ n = SafeName(joints_out[n].name, 0)
                          \/ joints_out[n].display_name = joints_out[n].name

\* A declared joint named like the synthetic joint has been emitted next to it.
C7_Witness ==
    /\ pc = "done"
    /\ ~RootIsGhost
    /\ \E k \in 1..Len(SourceJoints) :
         /\ SourceJoints[k].attrib["name"] = RootJointName
         /\ JointsFor(k) # {}

\* C8: after a conversion, every joint prim of a declared joint has the prim
\* of the joint's child link as body1 and the prim of its parent link as
\* body0, except that body0 is the world when the parent is the ghost root.
C8_BodiesAreParentAndChild ==
    pc = "done" =>
        \A k \in 1..Len(SourceJoints) : \A n \in JointsFor(k) :
            /\ joints_out[n].body1 \in PrimsOf(EndOf(SourceJoints[k], "child"))
            /\ IF RootIsGhost /\ EndOf(SourceJoints[k], "parent") = link_hierarchy.root
               THEN joints_out[n].body0 = DefaultPrim
               ELSE joints_out[n].body0 \in PrimsOf(EndOf(SourceJoints[k], "parent"))

\* ---------------------------------------------------------------- required attributes
\* A tag is recognized under a parent tag: the registry resolves it there.
RecognizedAt(tag, parent_tag) ==
    \/ tag = "robot" /\ parent_tag = NoTag
    \/ check_element_name(tag) /\ Resolves(tag, parent_tag)

\* The attributes an element must carry, by its tag and its parent's tag.
RequiredAttributes(tag, parent_tag) ==
    CASE tag = "robot" -> {"name"}
      [] tag \in {"link", "material", "transmission"} /\ parent_tag = "robot" -> {"name"}
      [] tag = "joint" /\ parent_tag = "robot" -> {"name", "type"}
      [] tag = "mesh" -> {"filename"}
      [] tag \in {"parent", "child"} /\ parent_tag = "joint" -> {"link"}
      [] tag = "mimic" -> {"joint"}
      [] tag = "safety_controller" -> {"k_velocity"}
      [] OTHER -> {}

\* The required attributes the source node does not give (an empty string
\* gives nothing).
MissingAttributes(node, parent_tag) ==
    { a \in RequiredAttributes(node.tag, parent_tag) :
        a \notin DOMAIN node.attrib \/ node.attrib[a] = "" }

\* The recognized elements at or beneath a source node that lack a required
\* attribute: line, tag and the attributes lacking.
RECURSIVE Lacking(_, _)
Lacking(node, parent_tag) ==
    IF ~RecognizedAt(node.tag, parent_tag) THEN {}
    ELSE (IF MissingAttributes(node, parent_tag) = {} THEN {}
          ELSE { [line |-> node.line, tag |-> node.tag,
                  attrs |-> MissingAttributes(node, parent_tag)] })
         \cup UNION { Lacking(node.children[i], node.tag) : i \in 1..Len(node.children) }

SuppliedValue(a) ==
    CASE a = "type" -> "fixed"
      [] a = "k_velocity" -> "1"
      [] a = "link" -> "A"
      [] OTHER -> "x"

\* The source node with every lacking required attribute supplied.
RECURSIVE Supplied(_, _)
Supplied(node, parent_tag) ==
    IF ~RecognizedAt(node.tag, parent_tag) THEN node
    ELSE [node EXCEPT
            !.attrib = [a \in MissingAttributes(node, parent_tag) |-> SuppliedValue(a)]
                       @@ node.attrib,
            !.children = [i \in 1..Len(node.children) |->
                            Supplied(node.children[i], node.tag)]]

\* The first, in document order, of a non-empty set of lacking elements.
FirstLacking(lacking) == CHOOSE m \in lacking : \A o \in lacking : m.line <= o.line

RequiredError(m) ==
    /\ error.kind = "is required"
    /\ error.tag = m.tag
    /\ error.line = m.line
    /\ error.detail \in m.attrs

\* C11: when a recognized element of the source lacks a required attribute,
\* the parse has failed and no document is returned; and when the lack is
\* the only defect of its robot-level subtree (the subtree parses once the
\* attribute is supplied), the error is the "required" error that names the
\* tag and the line of the first such element.
C11_MissingRequiredAttributeFails ==
    /\ MissingAttributes(tree, NoTag) # {} =>
         /\ pc = "failed"
         /\ root_element = NullElement
         /\ RequiredError([line |-> tree.line, tag |-> tree.tag, attrs |-> {"name"}])
    /\ \A k \in 1..Len(tree.children) :
         \A lacking \in { Lacking(tree.children[k], "robot") } :
             lacking # {} =>
                /\ pc = "failed"
                /\ root_element = NullElement
                /\ SoundAlone(Supplied(tree.children[k], "robot")) =>
                       RequiredError(FirstLacking(lacking))

\* A safety_controller without k_velocity, in the third child of the robot.
C11_Witness ==
    /\ pc = "failed"
    /\ Len(tree.children) = 3
    /\ error.kind = "is required"
    /\ error.tag = "safety_controller"
    /\ error.detail = "k_velocity"
    /\ error.line = tree.children[3].line + 3
    /\ root_element = NullElement

\* ---------------------------------------------------------------- unrecognized attributes
\* The source node that starts at a line.
RECURSIVE NodeAt(_, _)
NodeAt(node, line) ==
    IF node.line = line THEN node
    ELSE LET i == CHOOSE i \in 1..Len(node.children) :
                    line \in node.children[i].line..(node.children[i].line + Size(node.children[i]) - 1)
         IN  NodeAt(node.children[i], line)

\* The recognized elements of the parsed document.
RecognizedElements == { e \in AllElements(root_element) : e.cls # "ElementUndefined" }

\* The element keeps, in its unrecognized-attribute map, every attribute of
\* its source node that the whitelist of the tag does not hold.
KeepsUnlistedAttributes(e, node) ==
    \A k \in DOMAIN node.attrib :
        ~check_element_attribute_name(node.tag, k) =>
            /\ k \in DOMAIN e.undefined_attributes
            /\ e.undefined_attributes[k] = node.attrib[k]

\* C12: in a successfully parsed document every recognized element holds, in
\* its unrecognized-attribute map and with the source's string value, each
\* attribute of its source node that is not in the whitelist of its tag.
C12_UnlistedAttributesKept ==
    pc = "parsed" =>
        \A e \in RecognizedElements :
            /\ e.tag = NodeAt(tree, e.line_number).tag
            /\ KeepsUnlistedAttributes(e, NodeAt(tree, e.line_number))

\* Unlisted attributes on the robot, on a visual and on the box beneath it.
C12_Witness ==
    /\ pc = "parsed"
    /\ root_element.undefined_attributes = ("version" :> "1.0") @@ ("extra" :> "e")
    /\ \E e \in RecognizedElements :
         e.tag = "box" /\ e.undefined_attributes = ("tint" :> "red")
    /\ \E e \in RecognizedElements :
         e.tag = "visual" /\ e.undefined_attributes = ("data" :> "custom_data")

\* ---------------------------------------------------------------- visuals and collisions
\* The lines of the children of a source node with this tag, in document order.
ChildLines(node, tag) ==
    LET kids == SelectSeq(node.children, LAMBDA child : child.tag = tag)
    IN  [i \in 1..Len(kids) |-> kids[i].line]

LinesOf(entries) == [i \in 1..Len(entries) |-> entries[i].line_number]

\* C13: a parsed link holds every visual and every collision entry its source
\* declares, in document order; none is replaced by a later one.
C13_EveryVisualAndCollisionRetained ==
    pc = "parsed" =>
        \A i \in 1..Len(root_element.links) :
            LET link == root_element.links[i]
                node == NodeAt(tree, link.line_number)
            IN  /\ LinesOf(visuals(link)) = ChildLines(node, "visual")
                /\ LinesOf(collisions(link)) = ChildLines(node, "collision")

\* ---------------------------------------------------------------- undefined-content collection
\* The tags from the root of the source down to the node that starts at a line.
RECURSIVE PathTo(_, _)
PathTo(node, line) ==
    IF node.line = line THEN <<node.tag>>
    ELSE LET i == CHOOSE i \in 1..Len(node.children) :
                    line \in node.children[i].line..(node.children[i].line + Size(node.children[i]) - 1)
         IN  <<node.tag>> \o PathTo(node.children[i], line)

\* The lines of a source node and of every node beneath it.
LinesWithin(node) == node.line..(node.line + Size(node) - 1)

\* The lines of the unrecognized elements of the source: those with an
\* unreserved tag under a recognized parent, and everything beneath them.
UnrecognizedLines == UNION { LinesWithin(u) : u \in UnrecognizedTops(tree) }

\* The attributes of a source node that the whitelist of its tag does not hold.
UnlistedAttributes(node) ==
    [k \in { a \in DOMAIN node.attrib : ~check_element_attribute_name(node.tag, a) }
        |-> node.attrib[k]]

\* The lines of the recognized elements of the source, at any depth, that
\* carry an attribute their whitelist does not hold.
RECURSIVE UnlistedLines(_, _)
UnlistedLines(node, parent_tag) ==
    IF ~RecognizedAt(node.tag, parent_tag) THEN {}
    ELSE (IF UnlistedAttributes(node) = EmptyMap THEN {} ELSE {node.line})
         \cup UNION { UnlistedLines(node.children[i], node.tag) :
                        i \in 1..Len(node.children) }

\* The entries of the collection for a line.
EntriesAt(line) ==
    { i \in 1..Len(undefined_elements) : undefined_elements[i].line_number = line }

\* The entry tells the truth about the source node at its line.
EntryIsAccurate(entry) ==
    LET node == NodeAt(tree, entry.line_number)
    IN  /\ entry.tag = node.tag
        /\ entry.path = PathTo(tree, entry.line_number)
        /\ entry.undefined_element = (entry.line_number \in UnrecognizedLines)
        /\ entry.undefined_attributes =
             IF entry.undefined_element THEN node.attrib ELSE UnlistedAttributes(node)

\* C14: in the collection no two entries share path and line; every entry
\* carries the tag, path, line and attributes of the source node at its line;
\* and every unrecognized element the parsed document holds has exactly one
\* entry, however deep it sits and whether or not it has attributes of its own.
C14_CollectedOnce ==
    pc = "collected" =>
        /\ \A i, j \in 1..Len(undefined_elements) :
             i # j =>
               \/ undefined_elements[i].path # undefined_elements[j].path
               \/ undefined_elements[i].line_number # undefined_elements[j].line_number
        /\ \A i \in 1..Len(undefined_elements) : EntryIsAccurate(undefined_elements[i])
        /\ \A e \in AllElements(root_element) :
             e.cls = "ElementUndefined" => Cardinality(EntriesAt(e.line_number)) = 1

\* An unrecognized element with attributes beneath another one, next to a
\* recognized element with an unlisted attribute.
C14_Witness ==
    /\ pc = "collected"
    /\ Len(undefined_elements) >= 4
    /\ \E i, j, k \in 1..Len(undefined_elements) :
         /\ undefined_elements[i].path = <<"robot", "link", "visual", "custom">>
         /\ undefined_elements[j].path = <<"robot", "link", "visual", "custom", "item1">>
         /\ undefined_elements[j].undefined_attributes # EmptyMap
         /\ i < j
         /\ ~undefined_elements[k].undefined_element

\* C15: the collection is complete: every unrecognized element of the source
\* and every recognized element that carries an unlisted attribute has an
\* entry, at whatever depth and under whatever owner it sits.
C15_CollectionComplete ==
    pc = "collected" =>
        \A line \in UnrecognizedLines \cup UnlistedLines(tree, NoTag) :
            EntriesAt(line) # {}

\* ---------------------------------------------------------------- mimic relations
\* The source node of a parsed element, and its mimic child.
SourceOf(e) == NodeAt(tree, e.line_number)
MimicNode(node) ==
    node.children[First({ i \in 1..Len(node.children) : node.children[i].tag = "mimic" })]

\* The declared value of an attribute of a source node, or a default.
Declared(node, attribute, default) ==
    IF attribute \in DOMAIN node.attrib THEN node.attrib[attribute] ELSE default

\* The positions of the declared joints that get a descriptor and mimic a
\* declared joint that gets one too.
ResolvableMimics ==
    { k \in 1..Len(root_element.joints) :
        /\ DefinesPhysicsJoint(root_element.joints[k])
        /\ HasSlot(root_element.joints[k], "mimic")
        /\ \E r \in 1..Len(root_element.joints) :
             /\ DefinesPhysicsJoint(root_element.joints[r])
             /\ root_element.joints[r].fields["name"] =
                  MimicNode(SourceOf(root_element.joints[k])).attrib["joint"] }

\* The position of the joint that the joint at position k mimics.
Referenced(k) ==
    CHOOSE r \in 1..Len(root_element.joints) :
        root_element.joints[r].fields["name"] =
            MimicNode(SourceOf(root_element.joints[k])).attrib["joint"]

RequestsUnder(parent) ==
    { r \in 1..Len(name_requests) : name_requests[r].parent = parent }

\* C17: at every point of a conversion, no two of the names issued so far
\* under one parent scope are equal, whoever asked for them: a link, a
\* geometry, the scope of an unrecognized element, the catch-all scope and
\* its entries, the synthetic root joint or a declared joint.
C17_IssuedNamesUniquePerScope ==
    \A i, j \in 1..Len(name_requests) :
        (i # j /\ name_requests[i].parent = name_requests[j].parent)
            => name_requests[i].safe # name_requests[j].safe

\* A link and the scopes of two unrecognized elements asked for the same name
\* under one prim and got three names, while the scope nested in one of them
\* got that very name under its own parent; geometries, the catch-all scope,
\* its entries and joints have asked as well.
C17_Witness ==
    /\ pc = "returned"
    /\ \E i, j, k, n \in 1..Len(name_requests) :
         /\ name_requests[i].kind = "undefined"
         /\ name_requests[j].kind = "undefined"
         /\ name_requests[k].kind = "link"
         /\ i # j
         /\ name_requests[i].parent = name_requests[k].parent
         /\ name_requests[j].parent = name_requests[k].parent
         /\ name_requests[i].name = name_requests[k].name
         /\ name_requests[j].name = name_requests[k].name
         /\ name_requests[n].kind = "undefined"
         /\ name_requests[n].parent # name_requests[i].parent
         /\ name_requests[n].safe = name_requests[i].safe
    /\ { name_requests[r].kind : r \in 1..Len(name_requests) } =
         {"link", "undefined", "geometry", "joint", "root joint", "custom", "custom entry"}

\* ---------------------------------------------------------------- display names
\* The label an authored node has to carry: the source name when the node's
\* name is not the source name itself, none otherwise.
LabelFor(source_name, issued) ==
    IF issued = SafeName(source_name, 0) THEN NoDisplayName ELSE source_name

Last(path) == path[Len(path)]

\* C18: every authored link prim, joint prim and scope of an unrecognized
\* element, and the default prim named after the robot, carries the source
\* name as its display name exactly when the name it was authored under
\* differs from the source name, by transcoding or by a numeric suffix.
C18_DisplayNameWhenRenamed ==
    /\ \A p \in prims : p.display_name = LabelFor(p.link, Last(p.path))
    /\ \A n \in DOMAIN joints_out :
         joints_out[n].display_name = LabelFor(joints_out[n].name, n)
    /\ \A s \in scopes : s.display_name = LabelFor(s.tag, Last(s.path))
    /\ asset # NoAsset =>
         asset.display_name =
             IF asset.name = tree.attrib["name"] THEN NoDisplayName
             ELSE tree.attrib["name"]

\* The robot and a joint were renamed by transcoding, a link and a scope by
\* a suffix, and other nodes kept their names.
C18_Witness ==
    /\ pc = "returned"
    /\ asset.display_name = "my-robot"
    /\ \E n \in DOMAIN joints_out :
         n[2] = 0 /\ joints_out[n].display_name = "J-1"
    /\ \E n \in DOMAIN joints_out : joints_out[n].display_name = NoDisplayName
    /\ \E p \in prims : Last(p.path)[2] > 0 /\ p.display_name = p.link
    /\ \E p \in prims : p.display_name = NoDisplayName
    /\ \E s \in scopes : Last(s.path)[2] > 0 /\ s.display_name = s.tag
    /\ \E s \in scopes : s.display_name = NoDisplayName

\* ---------------------------------------------------------------- floating joints
FloatingJoints ==
    { k \in 1..Len(SourceJoints) : SourceJoints[k].attrib["type"] = "floating" }

\* C19: no joint prim is ever authored for a declared floating joint; and a
\* conversion of a document with floating joints that gets through its links
\* and joints returns with every link authored, every other declared joint
\* authored, and the warning that floating joints are not supported emitted.
C19_FloatingJointSkippedWithWarning ==
    /\ \A k \in FloatingJoints : JointsFor(k) = {}
    /\ (pc = "returned" /\ FloatingJoints # {}) =>
         /\ \A name \in SourceLinkNames : PrimsOf(name) # {}
         /\ \A k \in 1..Len(SourceJoints) :
              k \notin FloatingJoints => JointsFor(k) # {}
         /\ "Floating joints are not supported" \in diagnostics

\* ---------------------------------------------------------------- error kinds
\* C20: whenever a call of convert has ended in a failure - a missing or
\* non-file input, an output path that is a file, a document that does not
\* parse or validate, joints without a unique root, or anything raised while
\* the links and joints are converted - the error that reaches the caller is
\* a ValueError.
C20_EveryFailureIsValueError ==
    pc \in {"failed", "crashed"} => error.kind = "ValueError"


\* ---------------------------------------------------------------- no partial document
\* C21: once the parse has failed, whether while the elements were read or in
\* the validation that follows, get_root_element() gives no document: the
\* parser holds no robot that was built but not validated.
C21_NoDocumentAfterFailure ==
    pc = "failed" => root_element = NullElement

\* ---------------------------------------------------------------- catch-all scope
\* The tags of the elements that own their unrecognized content.
Owners == {"link", "joint", "material"}

\* The entries of the collection for the items directly beneath the robot,
\* and those of them that no link, joint or material owns.
TopLevel == { i \in 1..Len(undefined_elements) : Len(undefined_elements[i].path) = 2 }
Unowned == { i \in TopLevel : undefined_elements[i].path[2] \notin Owners }

\* The requests for the name of the catch-all scope, and for the names of
\* the scopes beneath it that hold an item of a tag.
CatchAllScopes ==
    { r \in 1..Len(name_requests) : name_requests[r].kind = "custom" }
CatchAllEntries(tag) ==
    { r \in 1..Len(name_requests) : /\ name_requests[r].kind = "custom entry"
                                    /\ name_requests[r].name = tag }

\* C22: when the conversion has returned, at most one catch-all scope was
\* created, and for every tag of an item directly beneath the robot the
\* catch-all scope holds one scope for each item of that tag that no link,
\* joint or material owns, whatever the tag, and none for an item that a
\* link, joint or material owns.
C22_UnownedItemsOnceUnderCatchAll ==
    pc = "returned" =>
        /\ Cardinality(CatchAllScopes) <= 1
        /\ \A i \in TopLevel :
              Cardinality(CatchAllEntries(undefined_elements[i].tag))
                = Cardinality({ j \in Unowned :
                                  undefined_elements[j].tag = undefined_elements[i].tag })

\* ---------------------------------------------------------------- planar joints
\* An axis along one of the three directions, either way; the direction.
IsCanonical(a) == Cardinality({ i \in 1..3 : a[i] # 0 }) = 1
NormalOf(a) == CHOOSE i \in 1..3 : a[i] # 0

Translation == <<"transX", "transY", "transZ">>
Rotation == <<"rotX", "rotY", "rotZ">>

\* The locks of a plane normal to the i-th direction: the translation along
\* it and the rotations about the two others, each with the range [0, 0].
PlaneLocks(i) ==
    { Limit(Translation[i], 0, 0) }
      \cup { Limit(Rotation[j], 0, 0) : j \in (1..3) \ {i} }

\* A quaternion of a half turn about a direction that lies in the plane
\* normal to the i-th direction.
IsHalfTurnInPlane(q, i) ==
    /\ q.real = 0
    /\ Dot(q.imaginary, q.imaginary) = 1
    /\ q.imaginary[i] = 0

Opposite(a) == << 0 - a[1], 0 - a[2], 0 - a[3] >>

\* C23: a planar joint defined for an axis along +A or -A has exactly the
\* three locks of the plane normal to A, each with the range [0, 0]: the
\* translation along A and the rotations about the two other directions, and
\* no lock on the other two translations or on the rotation about A. The
\* opposite axis gives the same locks. For +A the joint frame is not turned;
\* for -A it is turned by a half turn about a direction in the plane.
C23_PlanarLocksOfCanonicalAxis ==
    (pc = "planar joint defined" /\ IsCanonical(axis)) =>
        /\ planar_joint.limits = PlaneLocks(NormalOf(axis))
        /\ Cardinality(planar_joint.limits) = 3
        /\ define_physics_planar_joint(Opposite(axis),
                                       _get_axis_alignment(Opposite(axis))).limits
             = planar_joint.limits
        /\ IF axis[NormalOf(axis)] > 0
           THEN planar_joint.orientation = QuatIdentity
           ELSE IsHalfTurnInPlane(planar_joint.orientation, NormalOf(axis))

\* The joint defined for the axis (0, 0, -2).
C23_Witness ==
    /\ pc = "planar joint defined"
    /\ axis = <<0, 0, 0 - 2>>
    /\ planar_joint.limits =
         { Limit("transZ", 0, 0), Limit("rotX", 0, 0), Limit("rotY", 0, 0) }
    /\ planar_joint.orientation = Quatd(0, 0 - 1, 0, 0)

\* ---------------------------------------------------------------- the root element
\* C24: when parse() has been called on a document whose root is not a
\* robot, whatever the root's tag, the parse has failed with the error that
\* the root element must be 'robot', citing the line of the root, and there
\* is no document.
C24_RootMustBeRobot ==
    (pc \in {"parsed", "failed"} /\ tree.tag # "robot") =>
        /\ pc = "failed"
        /\ root_element = NullElement
        /\ error.kind = "The root element must be 'robot'"
        /\ error.line = tree.line

\* ---------------------------------------------------------------- inertia
\* A column is an eigenvector of the diagonal tensor for a moment.
IsEigenvector(diagonal, col, moment) ==
    /\ col # <<0, 0, 0>>
    /\ \A i \in 1..3 : diagonal[i] * col[i] = moment * col[i]

\* The columns are orthonormal and right-handed.
IsProperRotation(columns) ==
    /\ \A i, j \in 1..3 : Dot(columns[i], columns[j]) = (IF i = j THEN 1 ELSE 0)
    /\ Det(columns) = 1

\* C25: for a tensor whose three moments are distinct, however small, the
\* extraction returns a proper rotation and the moments in ascending order,
\* and each column of the rotation is an eigenvector of the tensor for the
\* moment at its position.
C25_DistinctMomentsKeepTheirAxes ==
    (pc = "inertia extracted" /\ Cardinality({ inertia[i] : i \in 1..3 }) = 3) =>
        /\ IsProperRotation(mass_api.orientation)
        /\ mass_api.diag_inertia[1] < mass_api.diag_inertia[2]
        /\ mass_api.diag_inertia[2] < mass_api.diag_inertia[3]
        /\ { mass_api.diag_inertia[j] : j \in 1..3 } = { inertia[i] : i \in 1..3 }
        /\ \A j \in 1..3 :
             IsEigenvector(inertia, mass_api.orientation[j], mass_api.diag_inertia[j])

\* ---------------------------------------------------------------- spanning tree
\* C26: once the hierarchy has been built, no declared link is ever authored
\* twice, and when the traversal of the links has ended every declared link
\* has been authored once: a child of two joints has one prim, and no link
\* is left out.
C26_EachLinkAuthoredOnce ==
    /\ HierarchyBuilt =>
         \A name \in SourceLinkNames : Cardinality(PrimsOf(name)) <= 1
    /\ pc \in {"declared", "done", "returned"} =>
         \A name \in SourceLinkNames : Cardinality(PrimsOf(name)) = 1

\* C27: the recursive link conversion ends for every document that the parser
\* and the hierarchy builder accept: no link is entered again while its own
\* conversion is still running, so the recursion is never cut off by the
\* interpreter.
Revisited ==
    \E outer \in 1..Len(stack) : \E inner \in (outer + 1)..Len(stack) :
        stack[outer].link = stack[inner].link

C27_LinkRecursionEnds ==
    /\ ~Revisited
    /\ pc = "crashed" => error.kind # "RecursionError"

\* C28: a mimic relation that names an undeclared joint, or a joint that got
\* no prim, never ends the conversion with a bare lookup failure: the run
\* fails with a structural error or skips the relation with a diagnostic; and
\* the relation of a joint that got no prim itself is reported when it is lost.
Mimicking == { k \in 1..Len(root_element.joints) : HasMimic(root_element.joints[k]) }

Unresolvable(joint) ==
    \A k \in 1..Len(root_element.joints) :
        root_element.joints[k].fields["name"] = joint.slots["mimic"].fields["joint"]
            => ~DefinesPhysicsJoint(root_element.joints[k])

LostRelation(joint) ==
    \/ ~DefinesPhysicsJoint(joint)
    \/ Unresolvable(joint)

C28_UnresolvedMimicIsClassified ==
    /\ pc = "crashed" => ~(error.kind = "KeyError" /\ error.detail = "physics_joints_dict")
    /\ pc = "returned" =>
          \A k \in Mimicking : LostRelation(root_element.joints[k])
              => "Mimic is not supported" \in diagnostics

\* C29: in a successfully parsed document each attribute of a recognized
\* element's source node is in exactly one place: in the typed field of its
\* name when the whitelist of the tag holds it, in the unrecognized-attribute
\* map otherwise.
InTypedField(e, k) == k \in DOMAIN e.fields
InUnrecognizedMap(e, k) == k \in DOMAIN e.undefined_attributes

C29_EachAttributeInOnePlace ==
    pc = "parsed" =>
        \A e \in RecognizedElements :
            \A k \in DOMAIN NodeAt(tree, e.line_number).attrib :
                /\ InTypedField(e, k) # InUnrecognizedMap(e, k)
                /\ InTypedField(e, k) <=> check_element_attribute_name(e.tag, k)

\* C30: whenever a call of convert has ended with a structural error - a
\* document that does not parse or validate, or joints without a unique root -
\* nothing has been created for the output: no asset stage, no prim, no scope.
NothingAuthored ==
    /\ asset = NoAsset
    /\ prims = {}
    /\ scopes = {}
    /\ joints_out = << >>

C30_NoOutputBeforeFailure ==
    pc = "failed" => NothingAuthored
====
